---- MODULE Spec2Model ----
(***************************************************************************)
(* Verification model of the Code-QA-Crew static analysis toolkit         *)
(* (qa_tools.py, qa_crewai_tools.py) and of its entry points (qa_crew.py,  *)
(* demo_qa_crew.py, qa_cli.py).                                            *)
(*                                                                         *)
(* The toolkit is a flat collection of independent analyzers; the module   *)
(* holds one specification per part of the toolkit:                        *)
(*   SpecScore      - the finding-count score functions of qa_tools.py     *)
(*   SpecComplexity - calculate_cyclomatic_complexity of qa_crewai_tools.py*)
(*   SpecAnalyzers  - the control flow of one call of every analyzer tool  *)
(*                    (root check, walk, per-file work, report, handlers)  *)
(*   SpecSyntax     - the per-file findings of the Python syntax analyses  *)
(*   SpecDependency - _analyze_dependency_file on a manifest               *)
(*   SpecProject    - check_package_dependencies on a project's manifests  *)
(*   SpecSecurity   - scan_security_vulnerabilities over a file tree       *)
(*   SpecPaths      - the paths written into task and report text by       *)
(*                    qa_crew.py and demo_qa_crew.py                       *)
(*   SpecMetrics    - the structure and complexity metrics of a directory  *)
(*   SpecCli        - main of qa_cli.py and run_demo_qa_analysis           *)
(*   SpecRequest    - run_natural_language_analysis of qa_crew.py          *)
(*   SpecMain       - main of qa_crew.py: agents by number or by request   *)
(***************************************************************************)
EXTENDS Integers, Sequences, FiniteSets, TLC

\* ------------------------------------------------------------------------
\* Bounds of the model
\* ------------------------------------------------------------------------

\* largest number of findings held by one category of a findings dict
MaxPerCategory == 8

\* largest number of nodes of a function's syntax tree (the FunctionDef
\* node included)
MaxNodes == 4

\* largest number of *.py files in the analysed directory
MaxFiles == 3

\* largest number of lines of a requirements-style manifest
MaxLines == 3

\* largest number of entries of one dependency section of package.json
MaxDeps == 2

\* largest number of files under the root of a security scan
MaxTreeFiles == 2

\* largest number of backslash-separated parts of a code_path
MaxParts == 4

\* largest number of agent keys handed to run_selected_agents_analysis
MaxSelected == 2

\* largest number of function definitions of one measured *.py file
MaxDefs == 2

\* largest number of comma-separated items of --ports
MaxPorts == 2

\* largest number of words of a natural language request
MaxWords == 3

\* ------------------------------------------------------------------------
\* State
\* ------------------------------------------------------------------------
VARIABLES
    scoreFn,    \* which score function the findings dict is handed to
    findings,   \* the findings dict: category key -> len(list of findings)
    score,      \* the value the score function returned for `findings`
    ast,        \* syntax tree of one function: sequence of [kind, parent, values]
    cc,         \* outcome of calculate_cyclomatic_complexity(ast[1])
    call,       \* the analyzer call in progress: tool, arguments, environment
    outcome,    \* what the call handed to its caller
    files,      \* the *.py files of the analysed directory, in rglob order
    run,        \* the last syntax analysis of `files`: tool and collected results
    manifest,   \* a dependency manifest: file name and content
    depResults, \* the dict _analyze_dependency_file returned for `manifest`
    project,    \* the dependency manifests of the analysed project
    depReport,  \* the last check_package_dependencies analysis of `project`
    tree,       \* the files under the scanned root, in rglob order
    scan,       \* the last security scan: tool, target, files opened and findings
    codePath,   \* the code_path argument, as its backslash-separated parts
    texts,      \* the paths written into the prints, task descriptions and report of a run
    sources,    \* the *.py files of the directory the metrics are computed for
    measured,   \* the last metrics analysis of `sources`
    args,       \* the parsed command line of qa_cli.main
    progress,   \* where main is: idle, in the loop over --ports, or ended with its exit status
    events,     \* the probes and analyses main has performed, in order
    reportFile, \* the content of demo_qa_report_<type>.md
    argv,       \* the command line of qa_crew.py, or the arguments of one direct call
    ran         \* which QACrew analysis ran, on which agent keys

scoreVars == <<scoreFn, findings, score>>

complexityVars == <<ast, cc>>

analyzerVars == <<call, outcome>>

syntaxVars == <<files, run>>

dependencyVars == <<manifest, depResults>>

projectVars == <<project, depReport>>

securityVars == <<tree, scan>>

pathVars == <<codePath, texts>>

metricsVars == <<sources, measured>>

cliVars == <<args, progress, events, reportFile>>

crewVars == <<argv, ran>>

vars ==
    <<scoreFn, findings, score, ast, cc, call, outcome, files, run,
      manifest, depResults, project, depReport, tree, scan, codePath,
      texts, sources, measured, args, progress, events, reportFile,
      argv, ran>>

\* ------------------------------------------------------------------------
\* Helpers
\* ------------------------------------------------------------------------
Max(a, b) == IF a >= b THEN a ELSE b

\* sum(len(d[key]) for key in keys)
RECURSIVE SumLen(_, _)
SumLen(d, keys) ==
    IF keys = {} THEN 0
    ELSE LET k == CHOOSE x \in keys : TRUE
         IN  d[k] + SumLen(d, keys \ {k})

\* ------------------------------------------------------------------------
\* The findings dicts built by the analyzers of qa_tools.py: the keys that
\* hold lists of findings (integer-valued keys such as components_found and
\* queries_found hold no findings and are skipped by the score functions).
\* ------------------------------------------------------------------------
ScoreFunctions ==
    {"python", "react", "sql", "dependency", "security",
     "complexity", "best_practices", "import"}

ResultKeys(fn) ==
    CASE fn = "python" ->
           {"syntax_errors", "style_issues", "complexity_warnings", "best_practices"}
      [] fn = "react" ->
           {"hook_usage", "prop_issues", "performance_concerns",
            "accessibility_issues", "best_practices"}
      [] fn = "sql" ->
           {"syntax_issues", "security_risks", "performance_issues", "best_practices"}
      [] fn = "dependency" ->
           {"outdated_packages", "security_vulnerabilities",
            "compatibility_issues", "missing_dependencies"}
      [] fn = "security" ->
           {"high_risk", "medium_risk", "low_risk", "best_practices"}
      [] fn = "complexity" ->
           {"cyclomatic_complexity", "cognitive_complexity", "function_length",
            "class_complexity", "nesting_depth"}
      [] fn = "best_practices" ->
           {"naming_conventions", "code_organization", "error_handling",
            "performance", "readability"}
      [] fn = "import" ->
           {"valid_imports", "invalid_imports", "unused_imports",
            "missing_imports", "circular_imports"}

\* the keys a score function reads
CountedKeys(fn) ==
    CASE fn = "dependency" ->
           {"outdated_packages", "security_vulnerabilities", "compatibility_issues"}
      [] fn = "security" -> {"high_risk", "medium_risk", "low_risk"}
      [] fn = "import" -> ResultKeys(fn) \ {"valid_imports"}
      [] OTHER -> ResultKeys(fn)

\* ------------------------------------------------------------------------
\* Score functions (qa_tools.py)
\* ------------------------------------------------------------------------
calculate_python_score(results) ==
    LET total_issues == SumLen(results, DOMAIN results)
    IN  IF total_issues = 0 THEN 10
        ELSE IF total_issues <= 5 THEN 8
        ELSE IF total_issues <= 15 THEN 6
        ELSE IF total_issues <= 30 THEN 4
        ELSE 2

calculate_react_score(analysis) ==
    LET total_issues == SumLen(analysis, DOMAIN analysis \ {"components_found"})
    IN  IF total_issues = 0 THEN 10
        ELSE IF total_issues <= 3 THEN 8
        ELSE IF total_issues <= 8 THEN 6
        ELSE IF total_issues <= 15 THEN 4
        ELSE 2

calculate_sql_score(analysis) ==
    LET total_issues == SumLen(analysis, DOMAIN analysis \ {"queries_found"})
    IN  IF total_issues = 0 THEN 10
        ELSE IF total_issues <= 2 THEN 8
        ELSE IF total_issues <= 5 THEN 6
        ELSE IF total_issues <= 10 THEN 4
        ELSE 2

calculate_dependency_score(analysis) ==
    LET issues == analysis["outdated_packages"]
                  + analysis["security_vulnerabilities"]
                  + analysis["compatibility_issues"]
    IN  IF issues = 0 THEN 10
        ELSE IF issues <= 3 THEN 8
        ELSE IF issues <= 8 THEN 6
        ELSE IF issues <= 15 THEN 4
        ELSE 2

calculate_security_score(vulnerabilities) ==
    LET high   == vulnerabilities["high_risk"]
        medium == vulnerabilities["medium_risk"]
        low    == vulnerabilities["low_risk"]
    IN  IF high > 0 THEN Max(2, 6 - high)
        ELSE IF medium > 0 THEN Max(4, 8 - medium)
        ELSE IF low > 0 THEN Max(6, 9 - low)
        ELSE 10

\* mutant of calculate_complexity_score: the max(2, ...) clamp is dropped
calculate_complexity_score_unclamped(metrics) ==
    LET total_issues == SumLen(metrics, DOMAIN metrics)
    IN  10 - total_issues

calculate_complexity_score(metrics) ==
    LET total_issues == SumLen(metrics, DOMAIN metrics)
    IN  Max(2, 10 - total_issues)

calculate_best_practices_score(practices) ==
    LET total_issues == SumLen(practices, DOMAIN practices)
    IN  Max(2, 10 - (total_issues \div 2))

\* mutant of calculate_import_score: the valid_imports key is not skipped
calculate_import_score_counts_valid(analysis) ==
    LET issues == SumLen(analysis, DOMAIN analysis)
    IN  Max(2, 10 - issues)

calculate_import_score(analysis) ==
    LET issues == SumLen(analysis, DOMAIN analysis \ {"valid_imports"})
    IN  Max(2, 10 - issues)

\* the score line of the report of the analyzer that owns the dict
ScoreOf(fn, d) ==
    CASE fn = "python"         -> calculate_python_score(d)
      [] fn = "react"          -> calculate_react_score(d)
      [] fn = "sql"            -> calculate_sql_score(d)
      [] fn = "dependency"     -> calculate_dependency_score(d)
      [] fn = "security"       -> calculate_security_score(d)
      [] fn = "complexity"     -> calculate_complexity_score(d)
      [] fn = "best_practices" -> calculate_best_practices_score(d)
      [] fn = "import"         -> calculate_import_score(d)

\* ------------------------------------------------------------------------
\* SpecScore: a findings dict starts empty (as every analyzer creates it),
\* findings are appended one at a time, and the owning score function is
\* applied to the dict after every append.
\* ------------------------------------------------------------------------
EmptyFindings(fn) == [k \in ResultKeys(fn) |-> 0]

\* the parts of the toolkit share no state: a specification of one part
\* leaves the variables of the others at these values
ScoreIdle == scoreFn = "none" /\ findings = <<>> /\ score = 10

ComplexityIdle == ast = <<>> /\ cc = [exc |-> "none", value |-> 0]

AnalyzersIdle == call = [fn |-> "none"] /\ outcome = [kind |-> "none"]

SyntaxIdle == files = <<>> /\ run = [fn |-> "none"]

DependencyIdle == manifest = [name |-> "none"] /\ depResults = [count |-> 0]

ProjectIdle == project = [requirements |-> "none"] /\ depReport = [fn |-> "none"]

SecurityIdle == tree = <<>> /\ scan = [fn |-> "none"]

PathsIdle == codePath = <<>> /\ texts = <<>>

MetricsIdle == sources = <<>> /\ measured = [fn |-> "none"]

CliIdle == args = [given |-> FALSE] /\ progress = [pc |-> "idle"] /\ events = <<>> /\ reportFile = [exists |-> FALSE]

CrewIdle == argv = [given |-> FALSE] /\ ran = [fn |-> "none"]

InitScore ==
    /\ scoreFn \in ScoreFunctions
    /\ findings = EmptyFindings(scoreFn)
    /\ score = ScoreOf(scoreFn, findings)
    /\ ComplexityIdle
    /\ AnalyzersIdle
    /\ SyntaxIdle
    /\ DependencyIdle
    /\ ProjectIdle
    /\ SecurityIdle
    /\ PathsIdle
    /\ MetricsIdle
    /\ CliIdle
    /\ CrewIdle

\* results[key].append(finding)
AddFinding(key) ==
    /\ findings[key] < MaxPerCategory
    /\ findings' = [findings EXCEPT ![key] = @ + 1]
    /\ score' = ScoreOf(scoreFn, findings')
    /\ UNCHANGED <<scoreFn, complexityVars, analyzerVars, syntaxVars, dependencyVars, projectVars, securityVars, pathVars, metricsVars, cliVars, crewVars>>

NextScore == \E key \in DOMAIN findings : AddFinding(key)

SpecScore == InitScore /\ [][NextScore]_vars

\* ------------------------------------------------------------------------
\* Properties of the score functions
\* ------------------------------------------------------------------------

\* number of findings in the categories the score function counts
CountedTotal == SumLen(findings, CountedKeys(scoreFn))

\* C1: for every score function, appending one finding to any category
\* never increases the score, and no score exceeds score(empty) = 10.
C1_ScoreNeverIncreases == [][score' <= score /\ score' <= 10]_vars

\* C2: every score function returns an integer in [2,10] for every
\* combination of finding counts: never below the floor 2, never above 10.
C2_ScoreInRange == score \in 2..10

\* C2 witness: the floor acts: the unclamped complexity score 10 - total is
\* below 2 and the function returned 2.
C2_FloorActs ==
    /\ scoreFn = "complexity"
    /\ 10 - CountedTotal < 2
    /\ score = 2

\* C3 (as claimed): zero findings score exactly 10, and at least one counted
\* finding scores strictly less than 10 but never 0.
C3_AnyFindingBelowTen ==
    /\ CountedTotal = 0 => score = 10
    /\ CountedTotal > 0 => (score < 10 /\ score # 0)

\* C3 (amended): zero findings score exactly 10; at least one counted
\* finding never scores 0, and scores strictly less than 10 except for the
\* best-practices score, which is still 10 for exactly one finding.
C3_AnyFindingBelowTenButBestPractices ==
    /\ CountedTotal = 0 => score = 10
    /\ CountedTotal > 0 =>
          /\ score # 0
          /\ \/ score < 10
             \/ scoreFn = "best_practices" /\ CountedTotal = 1

\* C3 witness: the second finding of the best-practices dict is the first
\* to cost a point.
C3_SecondBestPracticeCosts ==
    /\ scoreFn = "best_practices"
    /\ CountedTotal = 2
    /\ score = 9

\* C4: the security score is 10 - 3*high - 2*medium, clamped to the floor 2.
C4_SecurityWeights ==
    scoreFn = "security" =>
        score = Max(2, 10 - 3 * findings["high_risk"] - 2 * findings["medium_risk"])

\* ------------------------------------------------------------------------
\* Cyclomatic complexity (qa_crewai_tools.py)
\*
\* A function's syntax tree is a sequence of nodes; node 1 is the
\* FunctionDef node handed to calculate_cyclomatic_complexity, and every
\* other node names its parent, an earlier node.  `values` is
\* len(node.values) of a BoolOp node.  Node classes no branch of the
\* function names (arguments, Name, Return, Pass, ...) are kind "Other".
\* ------------------------------------------------------------------------
StatementKinds ==
    {"If", "IfExp", "While", "For", "AsyncFor", "ExceptHandler", "With",
     "BoolOp", "ListComp", "GeneratorExp", "Other"}

FunctionDefNode == [kind |-> "FunctionDef", parent |-> 0, values |-> 0]

\* ast.iter_child_nodes(t[n]): the children of node n, in source order
Children(t, n) ==
    LET idx == {i \in 1..Len(t) : t[i].parent = n}
        RECURSIVE InOrder(_)
        InOrder(left) ==
            IF left = {} THEN <<>>
            ELSE LET m == CHOOSE i \in left : \A j \in left : i <= j
                 IN  <<m>> \o InOrder(left \ {m})
    IN  InOrder(idx)

\* ast.walk(node): breadth-first, the node itself first
RECURSIVE Walk(_, _)
Walk(t, todo) ==
    IF todo = <<>> THEN <<>>
    ELSE <<Head(todo)>> \o Walk(t, Tail(todo) \o Children(t, Head(todo)))

\* isinstance(child, ast.With, ast.AsyncWith) and
\* isinstance(child, ast.ListComp, ast.SetComp, ast.DictComp, ast.GeneratorExp):
\* the classes are passed as separate arguments, not as a tuple, and
\* isinstance() accepts exactly two arguments, so evaluating the call raises
\* TypeError whatever the child is.
isinstance_extra_args(child) == "TypeError"

\* the for loop of calculate_cyclomatic_complexity over the nodes still to
\* visit; the outcome is the returned complexity or the exception raised
RECURSIVE complexity_loop(_, _, _)
complexity_loop(t, order, complexity) ==
    IF order = <<>> THEN [exc |-> "none", value |-> complexity]
    ELSE LET child == t[Head(order)]
         IN  IF child.kind \in {"If", "While", "For", "AsyncFor"}
             THEN complexity_loop(t, Tail(order), complexity + 1)
             ELSE IF child.kind = "ExceptHandler"
             THEN complexity_loop(t, Tail(order), complexity + 1)
             ELSE IF isinstance_extra_args(child) = "TypeError"
             THEN [exc |-> "TypeError", value |-> 0]
             ELSE IF child.kind = "BoolOp"
             THEN complexity_loop(t, Tail(order), complexity + child.values - 1)
             ELSE complexity_loop(t, Tail(order), complexity)

calculate_cyclomatic_complexity(t) == complexity_loop(t, Walk(t, <<1>>), 1)

\* SpecComplexity: the tree of a function grows one node at a time, either
\* as a further statement of the function body or nested in the latest
\* node, and calculate_cyclomatic_complexity is applied to every tree.
InitComplexity ==
    /\ ast = <<FunctionDefNode>>
    /\ cc = calculate_cyclomatic_complexity(ast)
    /\ ScoreIdle
    /\ AnalyzersIdle
    /\ SyntaxIdle
    /\ DependencyIdle
    /\ ProjectIdle
    /\ SecurityIdle
    /\ PathsIdle
    /\ MetricsIdle
    /\ CliIdle
    /\ CrewIdle

AddNode(kind, parent, values) ==
    /\ Len(ast) < MaxNodes
    /\ ast' = Append(ast, [kind |-> kind, parent |-> parent, values |-> values])
    /\ cc' = calculate_cyclomatic_complexity(ast')
    /\ UNCHANGED <<scoreVars, analyzerVars, syntaxVars, dependencyVars, projectVars, securityVars, pathVars, metricsVars, cliVars, crewVars>>

NextComplexity ==
    \E kind \in StatementKinds, parent \in {1, Len(ast)} :
        \E values \in (IF kind = "BoolOp" THEN 2..3 ELSE {0}) :
            AddNode(kind, parent, values)

SpecComplexity == InitComplexity /\ [][NextComplexity]_vars

\* ------------------------------------------------------------------------
\* Properties of calculate_cyclomatic_complexity
\* ------------------------------------------------------------------------

\* number of nodes of the tree whose kind is in `kinds`
CountKinds(kinds) == Cardinality({i \in 1..Len(ast) : ast[i].kind \in kinds})

\* sum over the boolean chains of the tree of (operands - 1)
RECURSIVE BoolOpExtra(_)
BoolOpExtra(i) ==
    IF i = 0 THEN 0
    ELSE (IF ast[i].kind = "BoolOp" THEN ast[i].values - 1 ELSE 0) + BoolOpExtra(i - 1)

\* the function body is exactly three `if` statements, none nested
ThreeSequentialIfs ==
    /\ Len(ast) = 4
    /\ \A i \in 2..4 : ast[i].kind = "If" /\ ast[i].parent = 1

\* C5: a function of three sequential, non-nested `if` statements has
\* complexity 4, and every function has a complexity of at least 1.
C5_ThreeIfsIsFour ==
    /\ ThreeSequentialIfs => cc = [exc |-> "none", value |-> 4]
    /\ Len(ast) >= 2 => (cc.exc = "none" /\ cc.value >= 1)

\* C6: the complexity is 1 + if/elif/ternary nodes + loops + exception
\* handlers + comprehensions/generators + (operands - 1) of every boolean
\* chain, and nothing else (e.g. `with`) contributes.
C6_McCabeCount ==
    Len(ast) >= 2 =>
    /\ cc.exc = "none"
    /\ cc.value = 1 + CountKinds({"If", "IfExp"})
                    + CountKinds({"For", "While", "AsyncFor"})
                    + CountKinds({"ExceptHandler"})
                    + CountKinds({"ListComp", "GeneratorExp"})
                    + BoolOpExtra(Len(ast))

\* ------------------------------------------------------------------------
\* Analyzer tools: the control flow of one call
\*
\* A call is described by the tool, the state of the root path, whether the
\* walk finds anything of the kind the tool looks for, and the failure (if
\* any) that happens while the call runs:
\*   fault.at = "path"   constructing the Path / path.exists() raises
\*              "walk"   enumerating the tree raises (rglob, iterdir, stat)
\*              "file"   opening, reading or parsing one file raises
\*              "helper" a helper called after the walk raises
\* Every failure is an instance of a subclass of Exception.
\* ------------------------------------------------------------------------
Returned(text, touched) == [kind |-> "returned", text |-> text, touched |-> touched]

Raised(exc, touched) == [kind |-> "raised", text |-> exc, touched |-> touched]

\* mutant of TryExceptReturn: the handler is missing, the exception leaves
\* the function
TryExceptMissing(body, message) == body

\* try: <body> / except Exception as e: return f"<message>: {str(e)}"
TryExceptReturn(body, message) ==
    IF body.kind = "raised"
    THEN [body EXCEPT !.kind = "returned", !.text = message]
    ELSE body

\* pathlib skips directories it may not read (rglob), and
\* _analyze_directory_structure catches PermissionError itself; any other
\* error of the walk leaves the walk
WalkRaises(c) == c.fault.at = "walk" /\ c.fault.exc # "PermissionError"

\* The shape every implemented path analyzer has:
\*   try:
\*       path = Path(code_path)
\*       if not path.exists(): return "... Path does not exist: ..."
\*       <walk the tree>; if nothing was found: return <empty>  (some tools)
\*       <per-file work, each file inside its own try/except>
\*       return <report>
\*   except Exception as e:
\*       return "<error>: ..."
PathAnalyzer(c, empty, report, error) ==
    TryExceptReturn(
        IF c.fault.at = "path" THEN Raised(c.fault.exc, FALSE)
        ELSE IF c.root = "missing" THEN Returned("Path does not exist", FALSE)
        ELSE IF WalkRaises(c) THEN Raised(c.fault.exc, TRUE)
        ELSE IF empty # "" /\ ~c.matches THEN Returned(empty, TRUE)
        ELSE IF c.fault.at = "helper" THEN Raised(c.fault.exc, TRUE)
        ELSE Returned(report, TRUE),
        error)

\* --- qa_tools.py ---------------------------------------------------------
qa_tools_analyze_code_structure(c) ==
    PathAnalyzer(c, "", "CODE STRUCTURE ANALYSIS", "Error analyzing code structure")

qa_tools_check_python_syntax(c) ==
    PathAnalyzer(c, "No Python files found to analyze",
                 "PYTHON SYNTAX & STYLE ANALYSIS", "Error checking Python syntax")

qa_tools_analyze_react_components(c) ==
    PathAnalyzer(c, "No React/JavaScript files found to analyze",
                 "REACT COMPONENTS ANALYSIS", "Error analyzing React components")

qa_tools_validate_sql_queries(c) ==
    PathAnalyzer(c, "No SQL queries found to analyze",
                 "SQL QUERIES ANALYSIS", "Error validating SQL queries")

qa_tools_check_package_dependencies(c) ==
    PathAnalyzer(c, "No dependency files found",
                 "PACKAGE DEPENDENCIES ANALYSIS", "Error checking dependencies")

qa_tools_scan_security_vulnerabilities(c) ==
    PathAnalyzer(c, "", "SECURITY VULNERABILITY SCAN",
                 "Error scanning security vulnerabilities")

qa_tools_run_general_qa_tests(c) ==
    PathAnalyzer(c, "", "GENERAL QA TEST RESULTS", "Error running QA tests")

qa_tools_analyze_code_complexity(c) ==
    PathAnalyzer(c, "", "CODE COMPLEXITY ANALYSIS", "Error analyzing code complexity")

qa_tools_check_best_practices(c) ==
    PathAnalyzer(c, "", "BEST PRACTICES COMPLIANCE", "Error checking best practices")

qa_tools_validate_imports(c) ==
    PathAnalyzer(c, "", "IMPORT VALIDATION REPORT", "Error validating imports")

\* --- qa_crewai_tools.py --------------------------------------------------
crewai_analyze_code_structure(c) ==
    PathAnalyzer(c, "", "CODE STRUCTURE ANALYSIS", "Error analyzing code structure")

crewai_check_python_syntax(c) ==
    PathAnalyzer(c, "", "PYTHON SYNTAX ANALYSIS", "Error checking Python syntax")

crewai_scan_security_vulnerabilities(c) ==
    PathAnalyzer(c, "", "SECURITY VULNERABILITY SCAN",
                 "Error scanning for vulnerabilities")

crewai_check_package_dependencies(c) ==
    PathAnalyzer(c, "", "DEPENDENCY ANALYSIS", "Error checking dependencies")

crewai_run_general_qa_tests(c) ==
    PathAnalyzer(c, "", "GENERAL QA TEST RESULTS", "Error running QA tests")

crewai_analyze_react_components(c) ==
    PathAnalyzer(c, "", "REACT COMPONENT ANALYSIS", "Error analyzing React components")

crewai_validate_sql_queries(c) ==
    PathAnalyzer(c, "", "SQL QUERY VALIDATION", "Error validating SQL queries")

crewai_analyze_code_complexity(c) ==
    PathAnalyzer(c, "No Python files / No functions found for complexity analysis",
                 "CODE COMPLEXITY ANALYSIS", "Error analyzing complexity")

crewai_advanced_python_analysis(c) ==
    PathAnalyzer(c, "No Python files found for analysis",
                 "ADVANCED PYTHON ANALYSIS", "Error in advanced Python analysis")

crewai_analyze_documentation_quality(c) ==
    PathAnalyzer(c, "", "DOCUMENTATION QUALITY ANALYSIS",
                 "Error running documentation analysis")

\* the tools whose body is a single `return "<text>"`: the path is not looked at
crewai_check_best_practices(c) ==
    Returned("Best practices check - Basic implementation available", FALSE)

crewai_validate_imports(c) ==
    Returned("Import validation - Basic implementation available", FALSE)

crewai_swift_swiftui_analysis(c) ==
    Returned("Swift/SwiftUI analysis - Feature available", FALSE)

crewai_react_performance_analysis(c) ==
    Returned("React performance analysis - Feature available", FALSE)

crewai_security_vulnerability_scan(c) ==
    Returned("Enhanced security scan - Feature available", FALSE)

crewai_dependency_vulnerability_check(c) ==
    Returned("Dependency vulnerability check - Feature available", FALSE)
\* --- check_localhost_site ------------------------------------------------
\* What requests.get(url, timeout=10) does: a response with a status code,
\* or one of the exceptions of requests.exceptions.  ConnectTimeout is a
\* subclass of both ConnectionError and Timeout, ReadTimeout of Timeout.
Responses == {"200", "404", "500"}

TransportErrors == {"ConnectionError", "ConnectTimeout", "ReadTimeout", "OtherError"}

\* no exception is taken for a ConnectionError
IsConnectionErrorNever(t) == FALSE

IsConnectionError(t) == t \in {"ConnectionError", "ConnectTimeout"}

IsTimeout(t) == t \in {"ConnectTimeout", "ReadTimeout"}

\* a probe that asks again after a request that got no response
ProbedRetrying(kind, text, gets, accessible, status_code, timed, error) ==
    [kind |-> kind, text |-> text, touched |-> FALSE,
     gets |-> IF gets = 1 /\ status_code = "None" THEN 2 ELSE gets,
     timeout |-> 10, accessible |-> accessible, status_code |-> status_code,
     timed |-> timed, error |-> error]

\* the report of a probe and the site_status it was rendered from
\* (status_code "None" and timed FALSE stand for None)
Probed(kind, text, gets, accessible, status_code, timed, error) ==
    [kind |-> kind, text |-> text, touched |-> FALSE, gets |-> gets,
     timeout |-> 10, accessible |-> accessible, status_code |-> status_code,
     timed |-> timed, error |-> error]

\* qa_tools.check_localhost_site
qa_tools_check_localhost_site(c) ==
    TryExceptReturn(
        IF c.fault.at = "path"
        THEN \* building the URL raises: nothing was requested
             Probed("raised", c.fault.exc, 0, FALSE, "None", FALSE, "none")
        ELSE LET t == c.transport
                 site_status ==
                     IF t \in Responses
                     THEN IF c.fault.at = "file"
                          THEN \* reading response.text raises: except Exception
                               Probed("returned", "LOCALHOST SITE CHECK", 1, TRUE, t, TRUE,
                                      "Unexpected error")
                          ELSE Probed("returned", "LOCALHOST SITE CHECK", 1, TRUE, t, TRUE,
                                      "none")
                     ELSE IF IsConnectionError(t)
                     THEN Probed("returned", "LOCALHOST SITE CHECK", 1, FALSE, "None", FALSE,
                                 "Connection refused")
                     ELSE IF IsTimeout(t)
                     THEN Probed("returned", "LOCALHOST SITE CHECK", 1, FALSE, "None", FALSE,
                                 "Request timeout")
                     ELSE Probed("returned", "LOCALHOST SITE CHECK", 1, FALSE, "None", FALSE,
                                 "Unexpected error")
             IN  IF c.fault.at = "helper"
                 THEN [site_status EXCEPT !.kind = "raised", !.text = c.fault.exc]
                 ELSE site_status,
        "Error checking localhost site")

\* qa_crewai_tools.check_localhost_site
crewai_check_localhost_site(c) ==
    LET t == c.transport
        body ==
            IF c.fault.at = "path"
            THEN Probed("raised", c.fault.exc, 0, FALSE, "None", FALSE, "none")
            ELSE IF t \in Responses
            THEN IF c.fault.at \in {"file", "helper"}
                 THEN \* len(response.content) or the report raises
                      Probed("raised", c.fault.exc, 1, FALSE, "None", FALSE, "none")
                 ELSE Probed("returned", "LOCALHOST SITE CHECK", 1, t = "200", t, TRUE, "none")
            ELSE Probed("raised", t, 1, FALSE, "None", FALSE, "none")
    IN  IF body.kind = "raised" /\ IsConnectionError(body.text)
        THEN \* except requests.exceptions.ConnectionError
             [body EXCEPT !.kind = "returned", !.text = "Cannot connect to localhost",
                          !.error = "Cannot connect"]
        ELSE \* except Exception as e
             TryExceptReturn(body, "Error checking localhost site")

\* ------------------------------------------------------------------------
\* SpecAnalyzers: any tool is called with any argument in any environment;
\* the tools keep no state between calls.
\* ------------------------------------------------------------------------
QaToolsPathAnalyzers ==
    {"qa_tools.analyze_code_structure", "qa_tools.check_python_syntax",
     "qa_tools.analyze_react_components", "qa_tools.validate_sql_queries",
     "qa_tools.check_package_dependencies", "qa_tools.scan_security_vulnerabilities",
     "qa_tools.run_general_qa_tests", "qa_tools.analyze_code_complexity",
     "qa_tools.check_best_practices", "qa_tools.validate_imports"}

CrewaiPathAnalyzers ==
    {"crewai.analyze_code_structure", "crewai.check_python_syntax",
     "crewai.scan_security_vulnerabilities", "crewai.check_package_dependencies",
     "crewai.run_general_qa_tests", "crewai.analyze_react_components",
     "crewai.validate_sql_queries", "crewai.analyze_code_complexity",
     "crewai.advanced_python_analysis", "crewai.analyze_documentation_quality",
     "crewai.check_best_practices", "crewai.validate_imports",
     "crewai.swift_swiftui_analysis", "crewai.react_performance_analysis",
     "crewai.security_vulnerability_scan", "crewai.dependency_vulnerability_check"}

PathAnalyzers == QaToolsPathAnalyzers \cup CrewaiPathAnalyzers

Probes == {"qa_tools.check_localhost_site", "crewai.check_localhost_site"}

Faults ==
    {[at |-> "none", exc |-> "none"]}
    \cup [at : {"path", "walk", "file", "helper"}, exc : {"PermissionError", "OSError"}]

PathCalls ==
    [fn : PathAnalyzers, root : {"missing", "file", "dir"}, matches : BOOLEAN,
     fault : Faults, transport : {"none"}]

ProbeCalls ==
    [fn : Probes, root : {"none"}, matches : {FALSE},
     fault : {f \in Faults : f.at # "walk"},
     transport : Responses \cup TransportErrors]

\* the function the tool name is bound to, applied to the call
RunTool(c) ==
    CASE c.fn = "qa_tools.analyze_code_structure" -> qa_tools_analyze_code_structure(c)
      [] c.fn = "qa_tools.check_python_syntax" -> qa_tools_check_python_syntax(c)
      [] c.fn = "qa_tools.analyze_react_components" -> qa_tools_analyze_react_components(c)
      [] c.fn = "qa_tools.validate_sql_queries" -> qa_tools_validate_sql_queries(c)
      [] c.fn = "qa_tools.check_package_dependencies" -> qa_tools_check_package_dependencies(c)
      [] c.fn = "qa_tools.scan_security_vulnerabilities" ->
             qa_tools_scan_security_vulnerabilities(c)
      [] c.fn = "qa_tools.run_general_qa_tests" -> qa_tools_run_general_qa_tests(c)
      [] c.fn = "qa_tools.analyze_code_complexity" -> qa_tools_analyze_code_complexity(c)
      [] c.fn = "qa_tools.check_best_practices" -> qa_tools_check_best_practices(c)
      [] c.fn = "qa_tools.validate_imports" -> qa_tools_validate_imports(c)
      [] c.fn = "qa_tools.check_localhost_site" -> qa_tools_check_localhost_site(c)
      [] c.fn = "crewai.analyze_code_structure" -> crewai_analyze_code_structure(c)
      [] c.fn = "crewai.check_python_syntax" -> crewai_check_python_syntax(c)
      [] c.fn = "crewai.scan_security_vulnerabilities" ->
             crewai_scan_security_vulnerabilities(c)
      [] c.fn = "crewai.check_package_dependencies" -> crewai_check_package_dependencies(c)
      [] c.fn = "crewai.run_general_qa_tests" -> crewai_run_general_qa_tests(c)
      [] c.fn = "crewai.analyze_react_components" -> crewai_analyze_react_components(c)
      [] c.fn = "crewai.validate_sql_queries" -> crewai_validate_sql_queries(c)
      [] c.fn = "crewai.analyze_code_complexity" -> crewai_analyze_code_complexity(c)
      [] c.fn = "crewai.advanced_python_analysis" -> crewai_advanced_python_analysis(c)
      [] c.fn = "crewai.analyze_documentation_quality" ->
             crewai_analyze_documentation_quality(c)
      [] c.fn = "crewai.check_best_practices" -> crewai_check_best_practices(c)
      [] c.fn = "crewai.validate_imports" -> crewai_validate_imports(c)
      [] c.fn = "crewai.swift_swiftui_analysis" -> crewai_swift_swiftui_analysis(c)
      [] c.fn = "crewai.react_performance_analysis" -> crewai_react_performance_analysis(c)
      [] c.fn = "crewai.security_vulnerability_scan" -> crewai_security_vulnerability_scan(c)
      [] c.fn = "crewai.dependency_vulnerability_check" ->
             crewai_dependency_vulnerability_check(c)
      [] c.fn = "crewai.check_localhost_site" -> crewai_check_localhost_site(c)

InitAnalyzers ==
    /\ AnalyzersIdle
    /\ ScoreIdle
    /\ ComplexityIdle
    /\ SyntaxIdle
    /\ DependencyIdle
    /\ ProjectIdle
    /\ SecurityIdle
    /\ PathsIdle
    /\ MetricsIdle
    /\ CliIdle
    /\ CrewIdle

\* one call of a path analyzer, from entry to the value handed to the caller
CallPathAnalyzer(c) ==
    /\ call' = c
    /\ outcome' = RunTool(c)
    /\ UNCHANGED <<scoreVars, complexityVars, syntaxVars, dependencyVars, projectVars, securityVars, pathVars, metricsVars, cliVars, crewVars>>

\* one call of check_localhost_site
CallProbe(c) ==
    /\ call' = c
    /\ outcome' = RunTool(c)
    /\ UNCHANGED <<scoreVars, complexityVars, syntaxVars, dependencyVars, projectVars, securityVars, pathVars, metricsVars, cliVars, crewVars>>

NextAnalyzers ==
    \/ \E c \in PathCalls : CallPathAnalyzer(c)
    \/ \E c \in ProbeCalls : CallProbe(c)

SpecAnalyzers == InitAnalyzers /\ [][NextAnalyzers]_vars

\* ------------------------------------------------------------------------
\* Properties of the analyzer calls
\* ------------------------------------------------------------------------

\* C7: every analyzer tool (path analyzers and check_localhost_site) hands
\* a string to its caller for every input and every internal failure; no
\* exception leaves an analyzer call.
C7_AlwaysReturnsString ==
    call.fn # "none" => outcome.kind = "returned"

\* C7 witness: a helper of an analyzer raised, and the caller got the
\* analyzer's error text.
C7_FailureBecameText ==
    /\ call.fn = "qa_tools.analyze_code_structure"
    /\ call.root = "dir"
    /\ call.fault = [at |-> "helper", exc |-> "OSError"]
    /\ outcome = Returned("Error analyzing code structure", TRUE)

\* the call ended with a failure report instead of an analysis
FailureReport(o) ==
    o.text \in {"Path does not exist",
                "Error analyzing code structure", "Error checking Python syntax",
                "Error analyzing React components", "Error validating SQL queries",
                "Error checking dependencies", "Error scanning security vulnerabilities",
                "Error scanning for vulnerabilities", "Error running QA tests",
                "Error analyzing code complexity", "Error analyzing complexity",
                "Error checking best practices", "Error validating imports",
                "Error in advanced Python analysis",
                "Error running documentation analysis"}

\* C8: for every path-taking analyzer a missing root ends the call at once
\* with a "Path does not exist" report, returned and not raised, before any
\* file is enumerated, read or scanned; and a missing root is the only
\* condition that makes a whole analyzer call fail.
C8_MissingRootIsTheOnlyFailure ==
    call.fn \in PathAnalyzers =>
        /\ (call.root = "missing" /\ call.fault.at = "none") =>
               outcome = Returned("Path does not exist", FALSE)
        /\ FailureReport(outcome) => call.root = "missing"

\* ------------------------------------------------------------------------
\* SpecSyntax: the Python syntax analyses over a directory of *.py files.
\* A file is described by what the analyses look at: whether ast.parse
\* accepts it, whether it has a line longer than 120 characters, a print(
\* call, and a function definition.
\* ------------------------------------------------------------------------
PythonFile(name) ==
    [name : {name}, parse : {"ok", "SyntaxError"}, long : BOOLEAN, print : BOOLEAN,
     func : BOOLEAN]

Finding(file, type) == [file |-> file, type |-> type]

\* ast.parse(content): "ok" or the exception it raises
ast_parse(f) == f.parse

\* the per-file analysis with its handlers removed: the SyntaxError leaves it
analyze_python_file_unguarded(f) ==
    [raised |-> ast_parse(f) # "ok",
     syntax_errors |-> <<>>,
     style_issues |-> IF f.long THEN <<Finding(f.name, "Line too long")>> ELSE <<>>,
     complexity_warnings |-> <<>>,
     best_practices |-> IF f.print
                        THEN <<Finding(f.name, "Consider using logging instead of print")>>
                        ELSE <<>>]

\* qa_tools._analyze_python_file: the SyntaxError is caught where it is
\* raised and recorded; the style and best-practice checks run all the same
analyze_python_file(f) ==
    [raised |-> FALSE,
     syntax_errors |-> IF ast_parse(f) = "SyntaxError"
                       THEN <<Finding(f.name, "syntax_error")>>
                       ELSE <<>>,
     style_issues |-> IF f.long THEN <<Finding(f.name, "Line too long")>> ELSE <<>>,
     complexity_warnings |-> <<>>,
     best_practices |-> IF f.print
                        THEN <<Finding(f.name, "Consider using logging instead of print")>>
                        ELSE <<>>]

EmptyPythonResults(text) ==
    [text |-> text, syntax_errors |-> <<>>, style_issues |-> <<>>,
     complexity_warnings |-> <<>>, best_practices |-> <<>>]

\* for py_file in python_files: results[key].extend(file_analysis[key]);
\* the loop has no handler of its own: an exception of the helper ends the
\* call in the outer handler, which returns the error text alone
RECURSIVE check_python_syntax_loop(_, _, _)
check_python_syntax_loop(fs, i, results) ==
    IF i > Len(fs) THEN results
    ELSE LET a == analyze_python_file(fs[i])
         IN  IF a.raised THEN EmptyPythonResults("Error checking Python syntax")
             ELSE check_python_syntax_loop(fs, i + 1,
                      [results EXCEPT
                          !.syntax_errors = @ \o a.syntax_errors,
                          !.style_issues = @ \o a.style_issues,
                          !.complexity_warnings = @ \o a.complexity_warnings,
                          !.best_practices = @ \o a.best_practices])

\* qa_tools.check_python_syntax on an existing directory
check_python_syntax(fs) ==
    IF fs = <<>> THEN EmptyPythonResults("No Python files found to analyze")
    ELSE check_python_syntax_loop(fs, 1, EmptyPythonResults("PYTHON SYNTAX & STYLE ANALYSIS"))

\* qa_crewai_tools.check_python_syntax: the loop and its two handlers
RECURSIVE crewai_check_python_syntax_loop(_, _, _)
crewai_check_python_syntax_loop(fs, i, results) ==
    IF i > Len(fs) THEN results
    ELSE crewai_check_python_syntax_loop(fs, i + 1,
             [results EXCEPT
                 !.files_checked = @ + 1,
                 !.syntax_errors = IF ast_parse(fs[i]) = "SyntaxError"
                                   THEN @ \o <<Finding(fs[i].name, "syntax_error")>>
                                   ELSE @])

crewai_check_python_syntax_results(fs) ==
    crewai_check_python_syntax_loop(fs, 1,
        [text |-> "PYTHON SYNTAX ANALYSIS", files_checked |-> 0, syntax_errors |-> <<>>])

\* qa_crewai_tools.analyze_function: its first statement calls
\* calculate_cyclomatic_complexity on the FunctionDef node
analyze_function(node) == calculate_cyclomatic_complexity(<<node>>)

\* qa_crewai_tools.check_python_issues
check_python_issues(f) ==
    (IF f.print THEN <<Finding(f.name, "print_statement")>> ELSE <<>>)
    \o (IF f.long THEN <<Finding(f.name, "long_line")>> ELSE <<>>)

\* the body of the per-file loop of advanced_python_analysis: SyntaxError is
\* recorded by the inner handler, any other exception by the outer one, and
\* check_python_issues runs only after a walk that ended without exception
advanced_python_file(f, results) ==
    LET counted == [results EXCEPT !.files_analyzed = @ + 1]
    IN  IF ast_parse(f) = "SyntaxError"
        THEN [counted EXCEPT !.issues = @ \o <<Finding(f.name, "syntax_error")>>]
        ELSE IF f.func /\ analyze_function(FunctionDefNode).exc # "none"
        THEN [counted EXCEPT !.issues = @ \o <<Finding(f.name, "file_error")>>]
        ELSE [counted EXCEPT
                 !.functions = IF f.func THEN @ \o <<Finding(f.name, "function")>> ELSE @,
                 !.issues = @ \o check_python_issues(f)]

RECURSIVE advanced_python_analysis_loop(_, _, _)
advanced_python_analysis_loop(fs, i, results) ==
    IF i > Len(fs) THEN results
    ELSE advanced_python_analysis_loop(fs, i + 1, advanced_python_file(fs[i], results))

\* qa_crewai_tools.advanced_python_analysis on an existing directory
advanced_python_analysis(fs) ==
    IF fs = <<>>
    THEN [text |-> "No Python files found for analysis", files_analyzed |-> 0,
          functions |-> <<>>, issues |-> <<>>]
    ELSE advanced_python_analysis_loop(fs, 1,
             [text |-> "ADVANCED PYTHON ANALYSIS", files_analyzed |-> 0,
              functions |-> <<>>, issues |-> <<>>])

SyntaxTools ==
    {"qa_tools.check_python_syntax", "crewai.check_python_syntax",
     "crewai.advanced_python_analysis"}

SyntaxResults(fn, fs) ==
    CASE fn = "qa_tools.check_python_syntax" -> check_python_syntax(fs)
      [] fn = "crewai.check_python_syntax" -> crewai_check_python_syntax_results(fs)
      [] fn = "crewai.advanced_python_analysis" -> advanced_python_analysis(fs)

InitSyntax ==
    /\ SyntaxIdle
    /\ ScoreIdle
    /\ ComplexityIdle
    /\ AnalyzersIdle
    /\ DependencyIdle
    /\ ProjectIdle
    /\ SecurityIdle
    /\ PathsIdle
    /\ MetricsIdle
    /\ CliIdle
    /\ CrewIdle

\* a *.py file appears in the directory; what was reported before no longer
\* describes the directory
WriteFile(f) ==
    /\ Len(files) < MaxFiles
    /\ files' = Append(files, f)
    /\ run' = [fn |-> "none"]
    /\ UNCHANGED <<scoreVars, complexityVars, analyzerVars, dependencyVars, projectVars, securityVars, pathVars, metricsVars, cliVars, crewVars>>

\* one call of a syntax analysis on the directory
AnalyzeSyntax(fn) ==
    /\ run' = [fn |-> fn, results |-> SyntaxResults(fn, files)]
    /\ UNCHANGED <<files, scoreVars, complexityVars, analyzerVars, dependencyVars, projectVars, securityVars, pathVars, metricsVars, cliVars, crewVars>>

NextSyntax ==
    \/ \E f \in PythonFile(Len(files) + 1) : WriteFile(f)
    \/ \E fn \in SyntaxTools : AnalyzeSyntax(fn)

SpecSyntax == InitSyntax /\ [][NextSyntax]_vars

\* ------------------------------------------------------------------------
\* Properties of the syntax analyses
\* ------------------------------------------------------------------------

\* the finding lists a tool collected
FindingLists(fn, r) ==
    CASE fn = "qa_tools.check_python_syntax" ->
             <<r.syntax_errors, r.style_issues, r.complexity_warnings, r.best_practices>>
      [] fn = "crewai.check_python_syntax" -> <<r.syntax_errors>>
      [] fn = "crewai.advanced_python_analysis" -> <<r.issues, r.functions>>

NotOfFile(name, list) == SelectSeq(list, LAMBDA x : x.file # name)

SyntaxErrorFindings(fn, r) ==
    IF fn = "crewai.advanced_python_analysis"
    THEN SelectSeq(r.issues, LAMBDA x : x.type = "syntax_error")
    ELSE r.syntax_errors

RemoveAt(fs, b) == SubSeq(fs, 1, b - 1) \o SubSeq(fs, b + 1, Len(fs))

\* b is the one file of the directory that does not parse
OnlyBadFile(b) ==
    /\ b \in 1..Len(files)
    /\ files[b].parse = "SyntaxError"
    /\ \A j \in 1..Len(files) : j # b => files[j].parse = "ok"

ManifestNames == {"requirements.txt", "package.json", "setup.py"}

VersionOperators == {"==", ">=", "~="}

RequirementLines ==
    [kind : {"requirement"}, op : {""} \cup VersionOperators,
     tail : {"", "marker", "comment"}]

ManifestLines ==
    RequirementLines
    \cup {[kind |-> "comment", op |-> "", tail |-> ""],
          [kind |-> "blank", op |-> "", tail |-> ""]}

OperatorText(op) ==
    CASE op = "" -> <<>>
      [] op = "==" -> <<"=", "=", "1">>
      [] op = ">=" -> <<">", "=", "1">>
      [] op = "~=" -> <<"~", "=", "1">>

TailText(tail) ==
    CASE tail = "" -> <<>>
      [] tail = "marker" -> <<";", " ", "o", "s", "=", "=", "n", "t">>
      [] tail = "comment" -> <<" ", "#", " ", ">", "=", "p", "y", "3">>

\* the characters of the line as f.readlines() hands it over
LineText(l) ==
    CASE l.kind = "blank" -> <<" ", "\n">>
      [] l.kind = "comment" -> <<" ", "#", " ", "p", "k", "g", "=", "=", "1", "\n">>
      [] l.kind = "requirement" ->
             <<"p", "k", "g">> \o OperatorText(l.op) \o TailText(l.tail) \o <<"\n">>

Whitespace == {" ", "\n", "\t"}

\* str.strip()
RECURSIVE lstrip(_)
lstrip(s) == IF s # <<>> /\ Head(s) \in Whitespace THEN lstrip(Tail(s)) ELSE s

RECURSIVE rstrip(_)
rstrip(s) ==
    IF s # <<>> /\ s[Len(s)] \in Whitespace THEN rstrip(SubSeq(s, 1, Len(s) - 1)) ELSE s

strip(s) == rstrip(lstrip(s))

\* str.startswith(prefix)
startswith(s, prefix) == Len(s) >= Len(prefix) /\ SubSeq(s, 1, Len(prefix)) = prefix

\* sub in s
Contains(sub, s) ==
    \E i \in 1..(Len(s) - Len(sub) + 1) : SubSeq(s, i, i + Len(sub) - 1) = sub

EmptyDependencyResults ==
    [count |-> 0, outdated_packages |-> <<>>, security_vulnerabilities |-> <<>>,
     compatibility_issues |-> <<>>, missing_dependencies |-> <<>>]

\* for line in lines: of the requirements.txt branch
RECURSIVE requirements_loop(_, _, _)
requirements_loop(lines, i, results) ==
    IF i > Len(lines) THEN results
    ELSE LET line == strip(lines[i])
         IN  IF line # <<>> /\ ~startswith(line, <<"#">>)
             THEN requirements_loop(lines, i + 1,
                      [results EXCEPT
                          !.count = @ + 1,
                          !.compatibility_issues =
                              IF ~Contains(<<"=", "=">>, line) /\ ~Contains(<<">", "=">>, line)
                              THEN @ \o <<[line |-> i, type |-> "no version specified"]>>
                              ELSE @])
             ELSE requirements_loop(lines, i + 1, results)

\* qa_tools._analyze_dependency_file
analyze_dependency_file(file) ==
    IF file.name = "requirements.txt"
    THEN requirements_loop([i \in 1..Len(file.lines) |-> LineText(file.lines[i])], 1,
                           EmptyDependencyResults)
    ELSE IF file.name = "package.json"
    THEN IF file.json.valid
         THEN [EmptyDependencyResults EXCEPT !.count = file.json.deps + file.json.dev]
         ELSE \* json.load raises: except Exception
              [EmptyDependencyResults EXCEPT
                  !.compatibility_issues = <<[line |-> 0, type |-> "Error reading file"]>>]
    ELSE EmptyDependencyResults

InitDependency ==
    /\ manifest \in [name : ManifestNames, lines : {<<>>},
                     json : {[valid |-> TRUE, deps |-> 0, dev |-> 0]}]
    /\ depResults = analyze_dependency_file(manifest)
    /\ ScoreIdle
    /\ ComplexityIdle
    /\ AnalyzersIdle
    /\ SyntaxIdle
    /\ ProjectIdle
    /\ SecurityIdle
    /\ PathsIdle
    /\ MetricsIdle
    /\ CliIdle
    /\ CrewIdle

\* the manifest changed and is analysed again
Analysed(file) ==
    /\ manifest' = file
    /\ depResults' = analyze_dependency_file(file)
    /\ UNCHANGED <<scoreVars, complexityVars, analyzerVars, syntaxVars, projectVars, securityVars, pathVars, metricsVars, cliVars, crewVars>>

\* a line is added to a text manifest
AddLine(l) ==
    /\ manifest.name # "package.json"
    /\ Len(manifest.lines) < MaxLines
    /\ Analysed([manifest EXCEPT !.lines = Append(@, l)])

\* a dependency is declared in package.json
DeclareDependency(section) ==
    /\ manifest.name = "package.json"
    /\ manifest.json[section] < MaxDeps
    /\ Analysed([manifest EXCEPT !.json[section] = @ + 1])

\* package.json is left malformed
BreakJson ==
    /\ manifest.name = "package.json"
    /\ manifest.json.valid
    /\ Analysed([manifest EXCEPT !.json.valid = FALSE])

NextDependency ==
    \/ \E l \in ManifestLines : AddLine(l)
    \/ \E section \in {"deps", "dev"} : DeclareDependency(section)
    \/ BreakJson

SpecDependency == InitDependency /\ [][NextDependency]_vars

\* ------------------------------------------------------------------------
\* Properties of the dependency analysis
\* ------------------------------------------------------------------------

\* the entries of the manifest that carry neither == nor >= as their
\* version operator
EntriesWithoutOperator ==
    {i \in 1..Len(manifest.lines) :
        manifest.lines[i].kind = "requirement" /\ manifest.lines[i].op \notin {"==", ">="}}

UnpinnedFindings ==
    SelectSeq(depResults.compatibility_issues, LAMBDA x : x.type = "no version specified")

\* C10: in a requirements-style manifest every entry without an exact-pin
\* or minimum-version operator yields exactly one unpinned finding and every
\* entry with one yields none, so the number of unpinned findings equals the
\* number of entries without a version operator.
C10_UnpinnedPerEntryWithoutOperator ==
    manifest.name = "requirements.txt" =>
        /\ Len(UnpinnedFindings) = Cardinality(EntriesWithoutOperator)
        /\ \A i \in 1..Len(manifest.lines) :
               (i \in EntriesWithoutOperator)
                   <=> (\E k \in 1..Len(UnpinnedFindings) : UnpinnedFindings[k].line = i)

\* ------------------------------------------------------------------------
\* SpecProject: check_package_dependencies of qa_tools.py and of
\* qa_crewai_tools.py on a project directory that holds a requirements.txt,
\* a package.json, both or neither (and no Python sources).
\* ------------------------------------------------------------------------
ProjectLines ==
    {[kind |-> "requirement", op |-> "==", tail |-> ""],
     [kind |-> "requirement", op |-> "", tail |-> ""],
     [kind |-> "comment", op |-> "", tail |-> ""]}

EmptyJson == [valid |-> TRUE, deps |-> 0, dev |-> 0]

EmptyProject == [hasReq |-> FALSE, lines |-> <<>>, hasPkg |-> FALSE, json |-> EmptyJson]

\* the file _analyze_dependency_file opens for a manifest name of the project
ManifestFile(pr, name) == [name |-> name, lines |-> pr.lines, json |-> pr.json]

\* qa_tools._find_dependency_files on a directory, in common_files order
find_dependency_files(pr) ==
    (IF pr.hasReq THEN <<"requirements.txt">> ELSE <<>>)
    \o (IF pr.hasPkg THEN <<"package.json">> ELSE <<>>)

\* the entries of a findings list of one manifest, which carry its file_path
OfManifest(name, list) ==
    [k \in 1..Len(list) |-> [file |-> name, line |-> list[k].line, type |-> list[k].type]]

\* for dep_file in dep_files: of qa_tools.check_package_dependencies
RECURSIVE dependency_files_loop(_, _, _, _)
dependency_files_loop(pr, dep_files, i, analysis) ==
    IF i > Len(dep_files) THEN analysis
    ELSE LET file_analysis == analyze_dependency_file(ManifestFile(pr, dep_files[i]))
         IN  dependency_files_loop(pr, dep_files, i + 1,
                 [analysis EXCEPT
                     !.total_dependencies = @ + file_analysis.count,
                     !.outdated_packages =
                         @ \o OfManifest(dep_files[i], file_analysis.outdated_packages),
                     !.security_vulnerabilities =
                         @ \o OfManifest(dep_files[i], file_analysis.security_vulnerabilities),
                     !.compatibility_issues =
                         @ \o OfManifest(dep_files[i], file_analysis.compatibility_issues),
                     !.missing_dependencies =
                         @ \o OfManifest(dep_files[i], file_analysis.missing_dependencies)])

\* qa_tools.check_package_dependencies on an existing directory
check_package_dependencies(pr) ==
    LET dep_files == find_dependency_files(pr)
        start == [kind |-> "returned", text |-> "PACKAGE DEPENDENCIES ANALYSIS",
                  dep_files |-> dep_files, total_dependencies |-> 0,
                  outdated_packages |-> <<>>, security_vulnerabilities |-> <<>>,
                  compatibility_issues |-> <<>>, missing_dependencies |-> <<>>,
                  score |-> 10]
        analysis == dependency_files_loop(pr, dep_files, 1, start)
    IN  IF dep_files = <<>>
        THEN [start EXCEPT !.text = "No dependency files found"]
        ELSE [analysis EXCEPT
                 !.score = calculate_dependency_score(
                     [outdated_packages |-> Len(analysis.outdated_packages),
                      security_vulnerabilities |-> Len(analysis.security_vulnerabilities),
                      compatibility_issues |-> Len(analysis.compatibility_issues)])]

\* the requirements.txt count of qa_crewai_tools.check_package_dependencies:
\* lines with line.strip() non-empty that do not start with '#' as read
RECURSIVE crewai_requirement_count(_, _)
crewai_requirement_count(lines, i) ==
    IF i > Len(lines) THEN 0
    ELSE (IF strip(LineText(lines[i])) # <<>> /\ ~startswith(LineText(lines[i]), <<"#">>)
          THEN 1 ELSE 0)
         + crewai_requirement_count(lines, i + 1)

\* qa_crewai_tools.check_package_dependencies on an existing directory; a
\* manifest whose reading raises is left out of dependency_info by the bare
\* "except: pass" and shown with the default count 0
crewai_check_package_dependencies_report(pr) ==
    [kind |-> "returned", text |-> "DEPENDENCY ANALYSIS",
     dep_files |-> find_dependency_files(pr),
     total_dependencies |->
         (IF pr.hasReq THEN crewai_requirement_count(pr.lines, 1) ELSE 0)
         + (IF pr.hasPkg /\ pr.json.valid THEN pr.json.deps + pr.json.dev ELSE 0),
     compatibility_issues |-> <<>>]

DependencyTools == {"qa_tools.check_package_dependencies", "crewai.check_package_dependencies"}

DependencyReport(fn, pr) ==
    CASE fn = "qa_tools.check_package_dependencies" -> check_package_dependencies(pr)
      [] fn = "crewai.check_package_dependencies" -> crewai_check_package_dependencies_report(pr)

InitProject ==
    /\ project = EmptyProject
    /\ depReport = [fn |-> "none"]
    /\ ScoreIdle
    /\ ComplexityIdle
    /\ AnalyzersIdle
    /\ SyntaxIdle
    /\ DependencyIdle
    /\ SecurityIdle
    /\ PathsIdle
    /\ MetricsIdle
    /\ CliIdle
    /\ CrewIdle

\* the project's manifests change; what was reported before no longer
\* describes the project
ProjectChanges(pr) ==
    /\ project' = pr
    /\ depReport' = [fn |-> "none"]
    /\ UNCHANGED <<scoreVars, complexityVars, analyzerVars, syntaxVars, dependencyVars, securityVars, pathVars, metricsVars, cliVars, crewVars>>

\* a line is written to requirements.txt (the file is created with it)
WriteRequirement(l) ==
    /\ Len(project.lines) < MaxLines
    /\ ProjectChanges([project EXCEPT !.hasReq = TRUE, !.lines = Append(@, l)])

\* package.json is created with no dependencies
CreatePackageJson ==
    /\ ~project.hasPkg
    /\ ProjectChanges([project EXCEPT !.hasPkg = TRUE])

\* a runtime ("deps") or development ("dev") dependency is declared
DeclareProjectDependency(section) ==
    /\ project.hasPkg
    /\ project.json[section] < MaxDeps
    /\ ProjectChanges([project EXCEPT !.json[section] = @ + 1])

\* package.json is left malformed
BreakPackageJson ==
    /\ project.hasPkg
    /\ project.json.valid
    /\ ProjectChanges([project EXCEPT !.json.valid = FALSE])

\* one call of check_package_dependencies on the project
CheckDependencies(fn) ==
    /\ depReport' = [fn |-> fn, report |-> DependencyReport(fn, project)]
    /\ UNCHANGED <<project, scoreVars, complexityVars, analyzerVars, syntaxVars,
                   dependencyVars, securityVars, pathVars, metricsVars, cliVars, crewVars>>

NextProject ==
    \/ \E l \in ProjectLines : WriteRequirement(l)
    \/ CreatePackageJson
    \/ \E section \in {"deps", "dev"} : DeclareProjectDependency(section)
    \/ BreakPackageJson
    \/ \E fn \in DependencyTools : CheckDependencies(fn)

SpecProject == InitProject /\ [][NextProject]_vars

\* ------------------------------------------------------------------------
\* Properties of the dependency inspection of a project
\* ------------------------------------------------------------------------

\* the project without its package.json
WithoutPackageJson(pr) == [pr EXCEPT !.hasPkg = FALSE]

\* C11: for a package.json the dependency count is the sum of the declared
\* runtime and development dependencies; when the file is malformed JSON the
\* inspection records a finding for that manifest, returns normally, and
\* still processes the other manifests as it does without the package.json.
C11_PackageJsonCountedOrReported ==
    (depReport.fn # "none" /\ project.hasPkg) =>
        LET r == depReport.report
            others == DependencyReport(depReport.fn, WithoutPackageJson(project))
        IN  /\ r.kind = "returned"
            /\ project.json.valid =>
                   r.total_dependencies
                       = others.total_dependencies + project.json.deps + project.json.dev
            /\ ~project.json.valid =>
                   /\ r.total_dependencies = others.total_dependencies
                   /\ \E k \in 1..Len(r.compatibility_issues) :
                          r.compatibility_issues[k].file = "package.json"
                   /\ SelectSeq(r.compatibility_issues, LAMBDA x : x.file # "package.json")
                          = others.compatibility_issues

\* ------------------------------------------------------------------------
\* SpecSecurity: scan_security_vulnerabilities of qa_tools.py and of
\* qa_crewai_tools.py.  A file is root/dir/name with a text content; the
\* two scanner sources are the files of this repository, every other file
\* holds one line of text, alone or together with bytes that are not valid
\* UTF-8.  What each regular expression finds in each content is the result
\* of re.search on that text.
\* ------------------------------------------------------------------------
TreeFiles ==
    [dir : {"app", "node_modules"}, name : {"settings.py", "index.js", "blob.bin"},
     content : {"password_literal", "eval_call", "os_system"},
     bytes : {"utf-8", "invalid"}]
    \cup {[dir |-> d, name |-> n, content |-> n, bytes |-> "utf-8"] :
             d \in {"app", "node_modules"}, n \in {"qa_tools.py", "qa_crewai_tools.py"}}

\* open(file, 'r', encoding='utf-8', errors=errors).read(): with the default
\* error handling a byte sequence that is not UTF-8 raises
\* UnicodeDecodeError, with errors='ignore' it is left out of the text
read_utf8(f, errors) ==
    IF f.bytes = "invalid" /\ errors = "strict"
    THEN [exc |-> "UnicodeDecodeError"]
    ELSE [exc |-> "none", content |-> f.content]

\* Path.suffix
Suffix(name) ==
    CASE name = "index.js" -> ".js"
      [] name = "blob.bin" -> ".bin"
      [] OTHER -> ".py"

\* qa_tools._should_skip_file
should_skip_file(f) ==
    \/ Suffix(f.name) \in {".pyc", ".pyo", ".pyd", ".so", ".dll", ".exe", ".bin"}
    \/ f.dir \in {"__pycache__", ".git", "node_modules", ".venv", "venv"}

RECURSIVE Concat(_)
Concat(lists) == IF lists = <<>> THEN <<>> ELSE Head(lists) \o Concat(Tail(lists))

\* the descriptions of the patterns of a list that re.search finds in f
Matched(f, patterns) ==
    Concat([k \in 1..Len(patterns) |->
               IF f.content \in patterns[k][2] THEN <<Finding(f, patterns[k][1])>> ELSE <<>>])

\* the per-file scan without the credential pattern
scan_file_security_without_password(f) ==
    IF read_utf8(f, "strict").exc # "none"
    THEN [high_risk |-> <<>>, medium_risk |-> <<>>, low_risk |-> <<>>,
          best_practices |-> <<>>]
    ELSE
    [high_risk |-> Matched(f, <<
         <<"Use of eval() function", {"eval_call", "qa_tools.py", "qa_crewai_tools.py"}>>,
         <<"Use of exec() function", {"qa_tools.py", "qa_crewai_tools.py"}>>,
         <<"Dynamic imports", {}>>,
         <<"Shell injection risk", {"qa_tools.py", "qa_crewai_tools.py"}>> >>),
     medium_risk |-> <<>>, low_risk |-> <<>>, best_practices |-> <<>>]

\* qa_tools._scan_file_security: the file is read as strict UTF-8 inside the
\* try block, and `except Exception: pass` returns the empty lists
scan_file_security(f) ==
    IF read_utf8(f, "strict").exc # "none"
    THEN [high_risk |-> <<>>, medium_risk |-> <<>>, low_risk |-> <<>>,
          best_practices |-> <<>>]
    ELSE
    [high_risk |-> Matched(f, <<
         <<"Use of eval() function", {"eval_call", "qa_tools.py", "qa_crewai_tools.py"}>>,
         <<"Use of exec() function", {"qa_tools.py", "qa_crewai_tools.py"}>>,
         <<"Dynamic imports", {}>>,
         <<"Shell injection risk", {"qa_tools.py", "qa_crewai_tools.py"}>>,
         <<"Hardcoded password", {"password_literal"}>> >>),
     medium_risk |-> Matched(f, <<
         <<"Pickle deserialization", {}>>,
         <<"Unsafe YAML loading", {}>>,
         <<"Subprocess usage", {}>>,
         <<"OS system calls", {"os_system"}>> >>),
     low_risk |-> Matched(f, <<
         <<"Contains TODO/FIXME comments", {"qa_tools.py", "qa_crewai_tools.py"}>> >>),
     best_practices |-> IF Suffix(f.name) = ".py"
                        THEN Matched(f, <<
                                 <<"Use logging instead of print",
                                   {"qa_tools.py", "qa_crewai_tools.py"}>> >>)
                        ELSE <<>>]

\* qa_tools.scan_security_vulnerabilities on an existing target: a single
\* file is scanned as it is, a directory is walked with _should_skip_file
scan_security_vulnerabilities(tr, target) ==
    LET opened == IF target = 0 THEN SelectSeq(tr, LAMBDA f : ~should_skip_file(f))
                  ELSE <<tr[target]>>
        level(key) == Concat([i \in 1..Len(opened) |-> scan_file_security(opened[i])[key]])
    IN  [opened |-> opened, high_risk |-> level("high_risk"),
         medium_risk |-> level("medium_risk"), low_risk |-> level("low_risk"),
         best_practices |-> level("best_practices")]

\* qa_crewai_tools.scan_security_vulnerabilities on an existing target:
\* path_obj.rglob(ext) per code extension (nothing for a single file), the
\* tool's own file name skipped, every file read with errors='ignore', one
\* flat list of vulnerabilities
crewai_scan_security_vulnerabilities_results(tr, target) ==
    LET found(ext) == IF target = 0 THEN SelectSeq(tr, LAMBDA f : Suffix(f.name) = ext)
                      ELSE <<>>
        opened == SelectSeq(found(".py") \o found(".js"),
                            LAMBDA f : f.name # "qa_crewai_tools.py")
        security_patterns == <<
            <<"Code injection via eval()", {"eval_call", "qa_tools.py", "qa_crewai_tools.py"}>>,
            <<"Code injection via exec()", {"qa_tools.py", "qa_crewai_tools.py"}>>,
            <<"Command injection risk", {"qa_crewai_tools.py"}>>,
            <<"Hardcoded password", {"password_literal"}>>,
            <<"Hardcoded API key", {}>>,
            <<"Shell injection risk", {}>>,
            <<"OS command injection", {"os_system"}>> >>
    IN  [opened |-> opened,
         vulnerabilities |->
             Concat([i \in 1..Len(opened) |->
                        IF read_utf8(opened[i], "ignore").exc # "none" THEN <<>>
                        ELSE Matched(opened[i], security_patterns)])]

\* the findings of a scan, whatever their list
ScanFindings(sc) ==
    IF sc.fn = "qa_tools.scan_security_vulnerabilities"
    THEN sc.results.high_risk \o sc.results.medium_risk \o sc.results.low_risk
         \o sc.results.best_practices
    ELSE sc.results.vulnerabilities

InitSecurity ==
    /\ tree = <<>>
    /\ scan = [fn |-> "none"]
    /\ ScoreIdle
    /\ ComplexityIdle
    /\ AnalyzersIdle
    /\ SyntaxIdle
    /\ DependencyIdle
    /\ ProjectIdle
    /\ PathsIdle
    /\ MetricsIdle
    /\ CliIdle
    /\ CrewIdle

\* a file appears under the root; what was reported before no longer
\* describes the tree
AddTreeFile(f) ==
    /\ Len(tree) < MaxTreeFiles
    /\ \A i \in 1..Len(tree) : tree[i].dir # f.dir \/ tree[i].name # f.name
    /\ tree' = Append(tree, f)
    /\ scan' = [fn |-> "none"]
    /\ UNCHANGED <<scoreVars, complexityVars, analyzerVars, syntaxVars, dependencyVars,
                   projectVars, pathVars, metricsVars, cliVars, crewVars>>

\* one call of qa_tools.scan_security_vulnerabilities; target 0 is the root
\* directory, target i the single file tree[i]
ScanQaTools(target) ==
    /\ scan' = [fn |-> "qa_tools.scan_security_vulnerabilities", target |-> target,
                results |-> scan_security_vulnerabilities(tree, target)]
    /\ UNCHANGED <<tree, scoreVars, complexityVars, analyzerVars, syntaxVars,
                   dependencyVars, projectVars, pathVars, metricsVars, cliVars, crewVars>>

\* one call of qa_crewai_tools.scan_security_vulnerabilities
ScanCrewai(target) ==
    /\ scan' = [fn |-> "crewai.scan_security_vulnerabilities", target |-> target,
                results |-> crewai_scan_security_vulnerabilities_results(tree, target)]
    /\ UNCHANGED <<tree, scoreVars, complexityVars, analyzerVars, syntaxVars,
                   dependencyVars, projectVars, pathVars, metricsVars, cliVars, crewVars>>

NextSecurity ==
    \/ \E f \in TreeFiles : AddTreeFile(f)
    \/ \E target \in 0..Len(tree) : ScanQaTools(target)
    \/ \E target \in 0..Len(tree) : ScanCrewai(target)

SpecSecurity == InitSecurity /\ [][NextSecurity]_vars

\* ------------------------------------------------------------------------
\* Properties of the security scans
\* ------------------------------------------------------------------------
OfFile(f, list) == SelectSeq(list, LAMBDA x : x.file = f)

C13_NoFindingForSkippedFiles ==
    scan.fn # "none" =>
        \A k \in 1..Len(ScanFindings(scan)) : ~should_skip_file(ScanFindings(scan)[k].file)

\* the source file of the scanner that ran
OwnSource(fn) ==
    IF fn = "qa_tools.scan_security_vulnerabilities" THEN "qa_tools.py"
    ELSE "qa_crewai_tools.py"

\* C14: a scan of the tree reports no finding for the scanner's own source
\* file, and every other code file of the tree outside the excluded
\* directories is still scanned.
C14_OwnSourceSkipped ==
    (scan.fn # "none" /\ scan.target = 0) =>
        /\ \A k \in 1..Len(ScanFindings(scan)) :
               ScanFindings(scan)[k].file.name # OwnSource(scan.fn)
        /\ \A i \in 1..Len(tree) :
               (tree[i].name # OwnSource(scan.fn) /\ ~should_skip_file(tree[i]))
                   => \E j \in 1..Len(scan.results.opened) : scan.results.opened[j] = tree[i]

\* the findings the scanner reports for the text of f read without error
TextFindings(fn, f) ==
    LET text == [f EXCEPT !.bytes = "utf-8"]
        found == ScanFindings(
                     [fn |-> fn,
                      results |-> IF fn = "qa_tools.scan_security_vulnerabilities"
                                  THEN scan_security_vulnerabilities(<<text>>, 1)
                                  ELSE crewai_scan_security_vulnerabilities_results(<<text>>, 0)])
    IN  [k \in 1..Len(found) |-> found[k].type]

\* C23: a file with bytes that are not valid UTF-8 is still scanned: the
\* scan reports for it the pattern matches of its text, and for every other
\* file it opened the same findings as ever.
C23_InvalidBytesStillScanned ==
    scan.fn # "none" =>
        \A i \in 1..Len(scan.results.opened) :
            LET f == scan.results.opened[i]
                reported == OfFile(f, ScanFindings(scan))
            IN  [k \in 1..Len(reported) |-> reported[k].type] = TextFindings(scan.fn, f)

\* ------------------------------------------------------------------------
\* Properties of check_localhost_site
\* ------------------------------------------------------------------------

C16_TimeoutReportedAsTimeout ==
    (call.fn \in Probes /\ call.fault.at = "none" /\ IsTimeout(call.transport)) =>
        /\ outcome.kind = "returned"
        /\ outcome.error = "Request timeout"

\* C17: probing a port with no listener returns normally with the site not
\* accessible, a connection-refused error for the port, and neither status
\* code nor response time.
C17_NoListenerIsConnectionRefused ==
    (call.fn \in Probes /\ call.fault.at = "none" /\ call.transport = "ConnectionError") =>
        /\ outcome.kind = "returned"
        /\ ~outcome.accessible
        /\ outcome.error \in {"Connection refused", "Cannot connect"}
        /\ outcome.status_code = "None"
        /\ ~outcome.timed

\* C17 witness: the qa_crewai_tools probe met a port with no listener and
\* returned its cannot-connect text.
C17_CrewaiNoListener ==
    /\ call.fn = "crewai.check_localhost_site"
    /\ call.transport = "ConnectionError"
    /\ call.fault.at = "none"
    /\ outcome.kind = "returned"
    /\ outcome.text = "Cannot connect to localhost"

\* C18: for every probe outcome (accessible, connection refused, timeout,
\* unexpected error) the returned string carries the LOCALHOST SITE CHECK
\* header.
C18_HeaderForEveryOutcome ==
    (call.fn \in Probes /\ call.fault.at = "none") =>
        /\ outcome.kind = "returned"
        /\ outcome.text = "LOCALHOST SITE CHECK"

\* C19: the probe reports the site accessible exactly when a response with
\* a 2xx-4xx status was received, and then status code and response time
\* are recorded; a 5xx response or a transport failure is not accessible.
C19_AccessibleIffBelow500 ==
    (call.fn \in Probes /\ call.fault.at = "none") =>
        /\ outcome.accessible <=> call.transport \in {"200", "404"}
        /\ outcome.accessible => (outcome.status_code = call.transport /\ outcome.timed)

\* ------------------------------------------------------------------------
\* SpecPaths: where code_path ends up in the text produced by
\* QACrew.create_tasks, run_single_agent_analysis,
\* run_selected_agents_analysis (qa_crew.py) and run_demo_qa_analysis
\* (demo_qa_crew.py).  A path is the sequence of its backslash-separated
\* parts; a text is recorded as the paths written into it.
\* ------------------------------------------------------------------------
PathSegments ==
    {"C:", "Users", "adria", "bob", "OneDrive", "Desktop", "Documents", "Downloads",
     "a_directory_name_that_is_forty_eight_chars_long_"}

\* len(path): the parts and the backslashes between them
RECURSIVE PathLen(_)
PathLen(p) ==
    IF p = <<>> THEN 0
    ELSE LET n == CASE Head(p) = "C:" -> 2
                    [] Head(p) \in {"...", "bob"} -> 3
                    [] Head(p) \in {"Users", "adria"} -> 5
                    [] Head(p) = "[USER]" -> 6
                    [] Head(p) = "Desktop" -> 7
                    [] Head(p) = "OneDrive" -> 8
                    [] Head(p) \in {"Documents", "Downloads"} -> 9
                    [] OTHER -> 48
         IN  n + (IF Len(p) > 1 THEN 1 ELSE 0) + PathLen(Tail(p))

\* re.sub(r'C:\\Users\\[^\\]+\\', r'C:\\Users\\[USER]\\', path) when anyUser,
\* path_str.replace('C:\\Users\\adria\\', 'C:\\Users\\[USER]\\') otherwise:
\* the matches are taken from the left and do not overlap, and the pattern
\* ends with a backslash, so the directory is not the last part
RECURSIVE ReplaceUser(_, _)
ReplaceUser(p, anyUser) ==
    IF Len(p) < 4 THEN p
    ELSE IF p[1] = "C:" /\ p[2] = "Users" /\ (anyUser \/ p[3] = "adria")
         THEN <<"C:", "Users", "[USER]">> \o ReplaceUser(SubSeq(p, 4, Len(p)), anyUser)
         ELSE <<Head(p)>> \o ReplaceUser(Tail(p), anyUser)

\* re.sub(pattern, '', path) / path_str.replace(pattern, '') for a pattern
\* of directory names each followed by a backslash
RECURSIVE RemoveDirs(_, _)
RemoveDirs(p, dirs) ==
    IF Len(p) <= Len(dirs) THEN p
    ELSE IF SubSeq(p, 1, Len(dirs)) = dirs
         THEN RemoveDirs(SubSeq(p, Len(dirs) + 1, Len(p)), dirs)
         ELSE <<Head(p)>> \o RemoveDirs(Tail(p), dirs)

\* QACrew._sanitize_path and EnhancedQACrew._sanitize_path (anyUser, limit 50)
\* and demo_qa_crew.sanitize_path (only the user adria, limit 60): the
\* substitutions one after the other, then a path longer than the limit with
\* more than three parts is cut to ...\ and its last two parts
Sanitize(p, anyUser, limit) ==
    LET short == RemoveDirs(RemoveDirs(RemoveDirs(ReplaceUser(p, anyUser),
                     <<"OneDrive", "Desktop">>), <<"Documents">>), <<"Downloads">>)
    IN  IF PathLen(short) > limit /\ Len(short) > 3
        THEN <<"...", short[Len(short) - 1], short[Len(short)]>>
        ELSE short

AgentKeys ==
    {"manager", "cs_professor", "python_expert", "react_expert", "swift_expert",
     "database_expert", "devops_expert", "documentation_expert", "tech_expert",
     "deps_expert", "security_expert", "qa_tester"}

\* the paths an agent's Task description is formatted with: the security
\* task names code_path twice, every other one sanitized_path and then
\* "Analyze the actual path: {code_path}"
task_description(agent_key, code_path, sanitized_path) ==
    IF agent_key = "security_expert"
    THEN <<[text |-> "located at", path |-> code_path],
           [text |-> "with the path", path |-> code_path]>>
    ELSE <<[text |-> "codebase at", path |-> sanitized_path],
           [text |-> "actual path", path |-> code_path]>>

InitPaths ==
    /\ codePath \in UNION {[1..n -> PathSegments] : n \in 1..MaxParts}
    /\ texts = <<>>
    /\ ScoreIdle
    /\ ComplexityIdle
    /\ AnalyzersIdle
    /\ SyntaxIdle
    /\ DependencyIdle
    /\ ProjectIdle
    /\ SecurityIdle
    /\ MetricsIdle
    /\ CliIdle
    /\ CrewIdle

\* QACrew.create_tasks: the eleven tasks in their order
CreateTasks ==
    /\ texts' = Concat([k \in 1..11 |->
                  task_description(
                      <<"cs_professor", "python_expert", "react_expert", "swift_expert",
                        "database_expert", "devops_expert", "documentation_expert",
                        "tech_expert", "deps_expert", "security_expert", "qa_tester">>[k],
                      codePath, Sanitize(codePath, TRUE, 50))])
    /\ UNCHANGED <<codePath, scoreVars, complexityVars, analyzerVars, syntaxVars,
                   dependencyVars, projectVars, securityVars, metricsVars, cliVars, crewVars>>

\* QACrew.run_single_agent_analysis: an unknown key ends the call before
\* anything is written about the path
RunSingleAgent(agent_key) ==
    /\ texts' = IF agent_key \notin AgentKeys THEN <<>>
                ELSE <<[text |-> "print", path |-> codePath]>>
                     \o task_description(agent_key, codePath, Sanitize(codePath, TRUE, 50))
    /\ UNCHANGED <<codePath, scoreVars, complexityVars, analyzerVars, syntaxVars,
                   dependencyVars, projectVars, securityVars, metricsVars, cliVars, crewVars>>

\* QACrew.run_selected_agents_analysis
RunSelectedAgents(selected_agent_keys) ==
    /\ texts' = IF \E k \in 1..Len(selected_agent_keys) :
                       selected_agent_keys[k] \notin AgentKeys
                THEN <<>>
                ELSE <<[text |-> "print", path |-> codePath]>>
                     \o Concat([k \in 1..Len(selected_agent_keys) |->
                           task_description(selected_agent_keys[k], codePath,
                                            Sanitize(codePath, TRUE, 50))])
    /\ UNCHANGED <<codePath, scoreVars, complexityVars, analyzerVars, syntaxVars,
                   dependencyVars, projectVars, securityVars, metricsVars, cliVars, crewVars>>

\* demo_qa_crew.run_demo_qa_analysis: the start-up print and the Path line
\* of the report (the tool reports appended to it are not followed here)
RunDemo ==
    /\ texts' = <<[text |-> "print", path |-> codePath],
                  [text |-> "report", path |-> Sanitize(codePath, FALSE, 60)]>>
    /\ UNCHANGED <<codePath, scoreVars, complexityVars, analyzerVars, syntaxVars,
                   dependencyVars, projectVars, securityVars, metricsVars, cliVars, crewVars>>

NextPaths ==
    \/ CreateTasks
    \/ \E agent_key \in {"cs_professor", "security_expert", "qa_tester", "nobody"} :
           RunSingleAgent(agent_key)
    \/ \E keys \in UNION {[1..n -> {"cs_professor", "security_expert", "nobody"}] :
                             n \in 0..MaxSelected} :
           RunSelectedAgents(keys)
    \/ RunDemo

SpecPaths == InitPaths /\ [][NextPaths]_vars

\* ------------------------------------------------------------------------
\* Properties of the paths in task and report text
\* ------------------------------------------------------------------------

\* C20: every path in the text produced by create_tasks,
\* run_single_agent_analysis, run_selected_agents_analysis and
\* run_demo_qa_analysis went through the path-sanitization helper: the raw
\* code_path is written only where sanitization leaves it as it is.
C20_OnlySanitizedPathsInText ==
    \A k \in 1..Len(texts) :
        texts[k].path \in {Sanitize(codePath, TRUE, 50), Sanitize(codePath, FALSE, 60)}

\* the path lies under a user's home directory C:\Users\<name>\...
UnderUserHome(p) ==
    Len(p) >= 4 /\ p[1] = "C:" /\ p[2] = "Users" /\ p[3] \in {"adria", "bob"}

\* the directory names dirs, each followed by a backslash, occur in p
HasDirs(p, dirs) ==
    \E i \in 1..Len(p) :
        i + Len(dirs) <= Len(p) /\ SubSeq(p, i, i + Len(dirs) - 1) = dirs

\* the sanitized paths of the text: the path of the "codebase at" phrase of
\* a task (QACrew._sanitize_path) and of the report's Path line
\* (demo_qa_crew.sanitize_path)
SanitizedPaths ==
    {texts[k].path : k \in {j \in 1..Len(texts) : texts[j].text \in {"codebase at", "report"}}}

\* C21: for a path under a user home directory C:\Users\<name>\..., the
\* sanitized path does not contain the <name> segment, and OneDrive\Desktop\,
\* Documents\ and Downloads\ do not occur in it.
C21_UserSegmentsStripped ==
    UnderUserHome(codePath) =>
        \A s \in SanitizedPaths :
            /\ \A i \in 1..Len(s) : s[i] # codePath[3]
            /\ ~HasDirs(s, <<"OneDrive", "Desktop">>)
            /\ ~HasDirs(s, <<"Documents">>)
            /\ ~HasDirs(s, <<"Downloads">>)

\* C29: path sanitization is idempotent: sanitizing a sanitized path again,
\* with QACrew._sanitize_path for a task's path and with
\* demo_qa_crew.sanitize_path for the report's path, leaves it unchanged.
C29_SanitizeIdempotent ==
    \A k \in 1..Len(texts) :
        /\ texts[k].text = "codebase at" =>
               Sanitize(texts[k].path, TRUE, 50) = texts[k].path
        /\ texts[k].text = "report" =>
               Sanitize(texts[k].path, FALSE, 60) = texts[k].path

\* ------------------------------------------------------------------------
\* SpecMetrics: the averages of analyze_code_structure,
\* analyze_code_complexity and advanced_python_analysis (qa_crewai_tools.py)
\* over a directory of *.py files.  A file is `defs` one-line public
\* function definitions, each ended by a newline, followed in a file that
\* does not parse by one broken line.  A quotient is kept as numerator and
\* denominator, or as the exception the division raises.
\* ------------------------------------------------------------------------
SourceFiles == [parse : {"ok", "SyntaxError"}, defs : 0..MaxDefs]

\* len(content.split('\n'))
SourceLines(f) == f.defs + (IF f.parse = "SyntaxError" THEN 1 ELSE 0) + 1

\* a / b
Divide(a, b) ==
    IF b = 0 THEN [exc |-> "ZeroDivisionError", num |-> 0, den |-> 0]
    ELSE [exc |-> "none", num |-> a, den |-> b]

\* the literal 0 of `... if ... else 0`
Zero == [exc |-> "none", num |-> 0, den |-> 1]

\* analyze_code_structure: lines and `def ` lines are counted in the text of
\* every file, whether it parses or not
RECURSIVE structure_loop(_, _, _)
structure_loop(fs, i, acc) ==
    IF i > Len(fs) THEN acc
    ELSE structure_loop(fs, i + 1,
             [acc EXCEPT !.total_lines = @ + SourceLines(fs[i]),
                         !.total_functions = @ + fs[i].defs])

analyze_code_structure(fs) ==
    LET acc == structure_loop(fs, 1, [total_lines |-> 0, total_functions |-> 0])
    IN  [text |-> "CODE STRUCTURE ANALYSIS",
         python_files |-> Len(fs),
         total_lines |-> acc.total_lines,
         total_functions |-> acc.total_functions,
         avg_lines_per_file |->
             IF fs # <<>> THEN Divide(acc.total_lines, Len(fs)) ELSE Zero,
         avg_functions_per_file |->
             IF fs # <<>> THEN Divide(acc.total_functions, Len(fs)) ELSE Zero]

\* analyze_code_complexity, the FunctionDef nodes of one parsed file, k of
\* them still to visit: the function is counted, then measured; an
\* exception of calculate_cyclomatic_complexity leaves the file (outer
\* handler, continue) with the count already taken
RECURSIVE complexity_functions(_, _)
complexity_functions(k, acc) ==
    IF k = 0 THEN acc
    ELSE LET counted == [acc EXCEPT !.function_count = @ + 1]
             complexity == calculate_cyclomatic_complexity(<<FunctionDefNode>>)
         IN  IF complexity.exc # "none" THEN counted
             ELSE complexity_functions(k - 1,
                      [counted EXCEPT
                          !.total_complexity = @ + complexity.value,
                          !.complexity_results = Append(@, complexity.value)])

RECURSIVE complexity_files(_, _, _)
complexity_files(fs, i, acc) ==
    IF i > Len(fs) THEN acc
    ELSE complexity_files(fs, i + 1,
             IF ast_parse(fs[i]) = "SyntaxError" THEN acc
             ELSE complexity_functions(fs[i].defs, acc))

ComplexityReport(text, acc, avg, ranges) ==
    [text |-> text, function_count |-> acc.function_count,
     total_complexity |-> acc.total_complexity,
     complexity_results |-> acc.complexity_results,
     avg_complexity |-> avg, complexity_ranges |-> ranges]

NoComplexity == [function_count |-> 0, total_complexity |-> 0, complexity_results |-> <<>>]

\* analyze_code_complexity from the division on: the report with the four
\* distribution buckets, or the error text of the handler around the whole
\* function
complexity_report(acc) ==
    LET avg_complexity == Divide(acc.total_complexity, acc.function_count)
        InRange(lo, hi) ==
            Len(SelectSeq(acc.complexity_results, LAMBDA c : lo <= c /\ c <= hi))
    IN  IF avg_complexity.exc # "none"
        THEN ComplexityReport("Error analyzing complexity", NoComplexity, Zero, <<>>)
        ELSE ComplexityReport("CODE COMPLEXITY ANALYSIS", acc, avg_complexity,
                 <<InRange(1, 2), InRange(3, 5), InRange(6, 10),
                   Len(SelectSeq(acc.complexity_results, LAMBDA c : c > 10))>>)

\* analyze_code_complexity without `if function_count == 0: return`
analyze_code_complexity_unguarded(fs) ==
    IF fs = <<>>
    THEN ComplexityReport("No Python files found for complexity analysis",
                          NoComplexity, Zero, <<>>)
    ELSE complexity_report(complexity_files(fs, 1, NoComplexity))

\* qa_crewai_tools.analyze_code_complexity on an existing directory
analyze_code_complexity(fs) ==
    IF fs = <<>>
    THEN ComplexityReport("No Python files found for complexity analysis",
                          NoComplexity, Zero, <<>>)
    ELSE LET acc == complexity_files(fs, 1, NoComplexity)
         IN  IF acc.function_count = 0
             THEN ComplexityReport("No functions found for complexity analysis",
                                   NoComplexity, Zero, <<>>)
             ELSE complexity_report(acc)

\* advanced_python_analysis from "Calculate metrics" on; every record of
\* results.functions holds the complexity analyze_function returned
advanced_python_metrics(fs) ==
    LET results == advanced_python_analysis(
                       [i \in 1..Len(fs) |->
                           [name |-> i, parse |-> fs[i].parse, long |-> FALSE,
                            print |-> FALSE, func |-> fs[i].defs > 0]])
        total_functions == Len(results.functions)
    IN  [text |-> results.text,
         files_analyzed |-> results.files_analyzed,
         total_functions |-> total_functions,
         avg_complexity |->
             IF total_functions > 0
             THEN Divide(total_functions * analyze_function(FunctionDefNode).value,
                         total_functions)
             ELSE Zero]

MetricsTools ==
    {"analyze_code_structure", "analyze_code_complexity", "advanced_python_analysis"}

InitMetrics ==
    /\ MetricsIdle
    /\ ScoreIdle
    /\ ComplexityIdle
    /\ AnalyzersIdle
    /\ SyntaxIdle
    /\ DependencyIdle
    /\ ProjectIdle
    /\ SecurityIdle
    /\ PathsIdle
    /\ CliIdle
    /\ CrewIdle

\* a *.py file appears in the directory
WriteSource(f) ==
    /\ Len(sources) < MaxFiles
    /\ sources' = Append(sources, f)
    /\ measured' = [fn |-> "none"]
    /\ UNCHANGED <<scoreVars, complexityVars, analyzerVars, syntaxVars, dependencyVars,
                   projectVars, securityVars, pathVars, cliVars, crewVars>>

\* one call of a metrics tool on the directory
Measure(fn) ==
    /\ measured' =
           [fn |-> fn,
            results |-> CASE fn = "analyze_code_structure" -> analyze_code_structure(sources)
                          [] fn = "analyze_code_complexity" -> analyze_code_complexity(sources)
                          [] fn = "advanced_python_analysis" -> advanced_python_metrics(sources)]
    /\ UNCHANGED <<sources, scoreVars, complexityVars, analyzerVars, syntaxVars,
                   dependencyVars, projectVars, securityVars, pathVars, cliVars, crewVars>>

NextMetrics ==
    \/ \E f \in SourceFiles : WriteSource(f)
    \/ \E fn \in MetricsTools : Measure(fn)

SpecMetrics == InitMetrics /\ [][NextMetrics]_vars

\* ------------------------------------------------------------------------
\* Properties of the metrics
\* ------------------------------------------------------------------------

\* C22: no analyzer divides by zero: no average is a failed division and no
\* call ends in the error report of its handler; with no Python file the
\* averages of analyze_code_structure are 0 and the other two analyzers
\* return their "No Python files found" report; with no function counted,
\* analyze_code_complexity returns "No functions found" and the average
\* complexity of advanced_python_analysis is 0.
C22_NoDivisionByZero ==
    LET r == measured.results IN
    /\ measured.fn = "analyze_code_structure" =>
           /\ r.avg_lines_per_file.exc = "none"
           /\ r.avg_functions_per_file.exc = "none"
           /\ sources = <<>> =>
                  (r.avg_lines_per_file = Zero /\ r.avg_functions_per_file = Zero)
    /\ measured.fn = "analyze_code_complexity" =>
           /\ r.text # "Error analyzing complexity"
           /\ r.avg_complexity.exc = "none"
           /\ sources = <<>> => r.text = "No Python files found for complexity analysis"
           /\ (sources # <<>> /\ r.function_count = 0) =>
                  r.text = "No functions found for complexity analysis"
    /\ measured.fn = "advanced_python_analysis" =>
           /\ r.avg_complexity.exc = "none"
           /\ sources = <<>> => r.text = "No Python files found for analysis"
           /\ r.total_functions = 0 => r.avg_complexity = Zero

\* C22 witness: a directory whose only file has a function that could not
\* be measured: the function is counted, nothing is summed, and the average
\* complexity is 0 / 1.
C22_UnmeasuredFunctionAveragesZero ==
    /\ measured.fn = "analyze_code_complexity"
    /\ sources = <<[parse |-> "ok", defs |-> 1]>>
    /\ measured.results.text = "CODE COMPLEXITY ANALYSIS"
    /\ measured.results.avg_complexity = [exc |-> "none", num |-> 0, den |-> 1]

\* the function definitions of the files of the directory that parse
RECURSIVE DefsOfParseable(_)
DefsOfParseable(fs) ==
    IF fs = <<>> THEN 0
    ELSE (IF Head(fs).parse = "ok" THEN Head(fs).defs ELSE 0) + DefsOfParseable(Tail(fs))

RECURSIVE SumSeq(_)
SumSeq(q) == IF q = <<>> THEN 0 ELSE Head(q) + SumSeq(Tail(q))

\* C30: in the report of analyze_code_complexity, Total Functions is the
\* number of function definitions of all parseable files, every counted
\* function has one complexity record, the counts of the four distribution
\* buckets sum to Total Functions, and the average complexity is the sum of
\* the recorded complexities divided by Total Functions.
C30_CountedFunctionsPartitioned ==
    LET r == measured.results IN
    (measured.fn = "analyze_code_complexity" /\ r.text = "CODE COMPLEXITY ANALYSIS") =>
        /\ r.function_count = DefsOfParseable(sources)
        /\ Len(r.complexity_results) = r.function_count
        /\ SumSeq(r.complexity_ranges) = r.function_count
        /\ r.avg_complexity = Divide(SumSeq(r.complexity_results), r.function_count)

\* ------------------------------------------------------------------------
\* SpecCli: qa_cli.main and the run_demo_qa_analysis it calls
\* (demo_qa_crew.py).  main is followed from the parsed arguments to its
\* end; the loop over --ports advances one port at a time.  A report is held
\* as the port it was made for and its step sections, in order.
\* ------------------------------------------------------------------------
PortItems == {"3000", " 8000"}

\* p.strip()
strip_port(p) == IF p = " 8000" THEN "8000" ELSE p

\* what --path names; --ports is held as its comma-separated items, none
\* when the option is absent or empty
Targets == {"missing", "py_file", "dir_with_py", "dir_without_py"}

CliArgs ==
    [given : {TRUE}, path : Targets, type : {"python", "react"},
     port : {"None", "3000"},
     ports : UNION {[1..n -> PortItems] : n \in 0..MaxPorts},
     localhost_only : BOOLEAN, code_only : BOOLEAN, crew : BOOLEAN]

\* tool.invoke({...}) on a function of qa_tools.py: qa_tools.tool only sets
\* func._tool_name and returns the function, which has no attribute invoke,
\* so the attribute lookup raises AttributeError before anything is called
tool_invoke(tool) == [exc |-> "AttributeError", returned |-> FALSE]

\* the try body of one step of run_demo_qa_analysis
step_body(step, code_path) ==
    CASE step = "Code Structure Analysis" -> tool_invoke("analyze_code_structure")
      [] step = "Python Syntax Analysis" ->
             IF code_path = "py_file" THEN tool_invoke("check_python_syntax")
             ELSE IF code_path = "dir_with_py" THEN tool_invoke("check_python_syntax")
             ELSE [exc |-> "none", returned |-> FALSE]
      [] step = "Security Analysis" -> tool_invoke("scan_security_vulnerabilities")
      [] step = "Dependencies Analysis" -> tool_invoke("check_package_dependencies")
      [] step = "General QA Analysis" -> tool_invoke("run_general_qa_tests")
      [] step = "Localhost Site Check" -> tool_invoke("check_localhost_site")

\* a step without its except clause: the section is written as Completed
step_section_unguarded(step, code_path) ==
    [step |-> step, status |-> "Completed",
     raised |-> step_body(step, code_path).exc # "none",
     returned |-> step_body(step, code_path).returned]

\* try: ... report += Completed section / except Exception: report += Failed
step_section(step, code_path) ==
    [step |-> step,
     status |-> IF step_body(step, code_path).exc = "none" THEN "Completed" ELSE "Failed",
     raised |-> step_body(step, code_path).exc # "none",
     returned |-> step_body(step, code_path).returned]

\* the steps run_demo_qa_analysis goes through, in its order
demo_steps(project_type, check_localhost) ==
    <<"Code Structure Analysis">>
    \o (IF project_type \in {"python", "mixed"} THEN <<"Python Syntax Analysis">> ELSE <<>>)
    \o <<"Security Analysis", "Dependencies Analysis", "General QA Analysis">>
    \o (IF check_localhost THEN <<"Localhost Site Check">> ELSE <<>>)

\* the file written only when it does not exist yet: an earlier report stays
save_report_keeping_first(file, report) ==
    IF file.exists THEN file ELSE [exists |-> TRUE, report |-> report]

\* with open(report_filename, "w") as f: f.write(report)
save_report(file, report) == [exists |-> TRUE, report |-> report]

\* run_demo_qa_analysis: the report, the requests sent, the file it leaves
\* behind, and whether it raised.  Every step has its own handler; a fault
\* is an exception of a statement outside them: "start" before the steps
\* (the opening prints), "save" when the report file is opened
run_demo_qa_analysis(code_path, project_type, check_localhost, port, fault, file) ==
    LET steps == demo_steps(project_type, check_localhost)
        report == [port |-> IF check_localhost THEN port ELSE "None",
                   type |-> project_type,
                   sections |-> [k \in 1..Len(steps) |-> step_section(steps[k], code_path)]]
        probes == SelectSeq(report.sections,
                            LAMBDA x : x.step = "Localhost Site Check" /\ x.returned)
    IN  [raised |-> fault # "none",
         report |-> IF fault = "start" THEN [port |-> "None", type |-> project_type,
                                             sections |-> <<>>]
                    ELSE report,
         probes |-> IF fault = "start" THEN 0 ELSE Len(probes),
         file |-> IF fault = "none" THEN save_report(file, report) ELSE file]

DemoFaults == {"none", "start", "save"}

\* the test of --code-only left out
code_only_ignored(a) == FALSE

\* if args.code_only:
code_only_mode(a) == a.code_only

Probe(port) == [act |-> "probe", port |-> port]

\* one call of run_demo_qa_analysis by main, as an event
Analysis(port, check_localhost, r) ==
    [act |-> "analysis", port |-> port, check_localhost |-> check_localhost,
     completed |-> ~r.raised, probes |-> r.probes, report |-> r.report]

\* main returned (status 0), called sys.exit(1), or let an exception
\* escape, which ends the interpreter with status 1 as well
Ended(status) == [pc |-> "ended", status |-> status]

InitCli ==
    /\ CliIdle
    /\ ScoreIdle
    /\ ComplexityIdle
    /\ AnalyzersIdle
    /\ SyntaxIdle
    /\ DependencyIdle
    /\ ProjectIdle
    /\ SecurityIdle
    /\ PathsIdle
    /\ MetricsIdle
    /\ CrewIdle

\* qa_cli.main from the parsed arguments to its end or, for --ports without
\* an exclusive mode, to the first pass of the loop over the ports
Main(a, fault) ==
    /\ progress.pc = "idle"
    /\ args' = a
    /\ IF a.path = "missing"
       THEN /\ progress' = Ended(1)
            /\ UNCHANGED <<events, reportFile, crewVars>>
       ELSE IF a.localhost_only
       THEN /\ events' = IF a.port # "None" THEN <<Probe(a.port)>>
                         ELSE IF a.ports # <<>>
                         THEN [k \in 1..Len(a.ports) |-> Probe(strip_port(a.ports[k]))]
                         ELSE <<>>
            /\ progress' = IF a.port = "None" /\ a.ports = <<>> THEN Ended(1)
                           ELSE Ended(0)
            /\ UNCHANGED reportFile
       ELSE IF code_only_mode(a)
       THEN LET r == run_demo_qa_analysis(a.path, a.type, FALSE, "3000", fault, reportFile)
            IN  /\ events' = <<Analysis("None", FALSE, r)>>
                /\ reportFile' = r.file
                /\ progress' = IF r.raised THEN Ended(1) ELSE Ended(0)
       ELSE IF a.ports # <<>>
       THEN /\ progress' = [pc |-> "ports", i |-> 1]
            /\ UNCHANGED <<events, reportFile, crewVars>>
       ELSE IF a.crew
       THEN /\ events' = <<[act |-> "run_analysis", port |-> a.port, completed |-> fault = "none"]>>
            /\ progress' = IF fault = "none" THEN Ended(0) ELSE Ended(1)
            /\ UNCHANGED reportFile
       ELSE LET r == run_demo_qa_analysis(a.path, a.type, a.port # "None",
                                          IF a.port # "None" THEN a.port ELSE "3000",
                                          fault, reportFile)
            IN  /\ events' = <<Analysis(a.port, a.port # "None", r)>>
                /\ reportFile' = r.file
                /\ progress' = IF r.raised THEN Ended(1) ELSE Ended(0)
    /\ UNCHANGED <<scoreVars, complexityVars, analyzerVars, syntaxVars, dependencyVars,
                   projectVars, securityVars, pathVars, metricsVars, crewVars>>

\* one pass of `for i, port in enumerate(ports)`: the analysis for the port
\* inside try/except Exception, then the next port or the return
AnalysePort(fault) ==
    /\ progress.pc = "ports"
    /\ LET port == strip_port(args.ports[progress.i])
           r == run_demo_qa_analysis(args.path, args.type, TRUE, port, fault, reportFile)
       IN  /\ events' = Append(events, Analysis(port, TRUE, r))
           /\ reportFile' = r.file
    /\ progress' = IF progress.i < Len(args.ports)
                   THEN [pc |-> "ports", i |-> progress.i + 1]
                   ELSE Ended(0)
    /\ UNCHANGED <<args, scoreVars, complexityVars, analyzerVars, syntaxVars,
                   dependencyVars, projectVars, securityVars, pathVars, metricsVars, crewVars>>

NextCli ==
    \/ \E a \in CliArgs, fault \in DemoFaults : Main(a, fault)
    \/ \E fault \in DemoFaults : AnalysePort(fault)

SpecCli == InitCli /\ [][NextCli]_vars

\* ------------------------------------------------------------------------
\* Properties of qa_cli.main and run_demo_qa_analysis
\* ------------------------------------------------------------------------

\* C24: with --localhost-only main performs only endpoint probes and no code
\* analysis, and ends with status 1 and nothing done when neither --port nor
\* --ports is given; with --code-only and no --localhost-only it runs the
\* code analysis without localhost check and sends no probe, even when
\* --port or --ports is given.
C24_ExclusiveModes ==
    progress.pc # "idle" =>
        /\ args.localhost_only =>
               /\ \A k \in 1..Len(events) : events[k].act = "probe"
               /\ ~reportFile.exists
               /\ (args.port = "None" /\ args.ports = <<>>) =>
                      (progress = Ended(1) /\ events = <<>>)
        /\ (args.code_only /\ ~args.localhost_only) =>
               /\ \A k \in 1..Len(events) :
                      /\ events[k].act = "analysis"
                      /\ ~events[k].check_localhost
                      /\ events[k].probes = 0
               /\ args.path # "missing" => (progress.pc = "ended" /\ Len(events) = 1)

\* C24 witness: --code-only together with --port and --ports: one analysis
\* without localhost check was run and main ended.
C24_CodeOnlyWithPorts ==
    /\ args.given /\ args.code_only /\ ~args.localhost_only
    /\ args.port = "3000" /\ Len(args.ports) = 2
    /\ progress = Ended(0)
    /\ Len(events) = 1
    /\ events[1].act = "analysis" /\ ~events[1].check_localhost

\* the reports run_demo_qa_analysis built, each with the analysis it is of
Reports == SelectSeq(events, LAMBDA e : e.act = "analysis" /\ e.report.sections # <<>>)

\* structure, Python syntax (project type python or mixed), security,
\* dependencies, general QA, localhost check (when asked for)
ExpectedSteps(e) ==
    SelectSeq(<<"Code Structure Analysis", "Python Syntax Analysis", "Security Analysis",
                "Dependencies Analysis", "General QA Analysis", "Localhost Site Check">>,
              LAMBDA st :
                  /\ st = "Python Syntax Analysis" => e.report.type \in {"python", "mixed"}
                  /\ st = "Localhost Site Check" => e.check_localhost)

\* C25: a report of run_demo_qa_analysis holds one section per step, in the
\* fixed order, whatever failed before, and a section is marked Completed
\* exactly when the analyzer call of its step returned without raising.
C25_CompletedIffAnalyzerReturned ==
    \A k \in 1..Len(Reports) :
        LET e == Reports[k] IN
        /\ [j \in 1..Len(e.report.sections) |-> e.report.sections[j].step] = ExpectedSteps(e)
        /\ \A j \in 1..Len(e.report.sections) :
               e.report.sections[j].status = "Completed" <=> e.report.sections[j].returned

\* C25 (amended): a report of run_demo_qa_analysis holds one section per
\* step, in the fixed order, whatever failed before, and a section is marked
\* Completed exactly when the try block of its step ended without an
\* exception, Failed otherwise; the Python syntax step on a directory
\* without Python files is Completed without any analyzer call.
C25_CompletedIffStepDidNotRaise ==
    \A k \in 1..Len(Reports) :
        LET e == Reports[k] IN
        /\ [j \in 1..Len(e.report.sections) |-> e.report.sections[j].step] = ExpectedSteps(e)
        /\ \A j \in 1..Len(e.report.sections) :
               /\ e.report.sections[j].status \in {"Completed", "Failed"}
               /\ e.report.sections[j].status = "Completed" <=> ~e.report.sections[j].raised

\* C25 witness: the first step failed, the Python syntax step after it is
\* Completed, and all six sections are in the report.
C25_LaterStepsAfterFailure ==
    /\ Len(Reports) = 1
    /\ Len(Reports[1].report.sections) = 6
    /\ Reports[1].report.sections[1].status = "Failed"
    /\ Reports[1].report.sections[2] =
           [step |-> "Python Syntax Analysis", status |-> "Completed",
            raised |-> FALSE, returned |-> FALSE]
    /\ Reports[1].report.sections[6].status = "Failed"

\* main runs the analyses of --ports (no exclusive mode, existing path)
MultiPortRun ==
    /\ args.given /\ ~args.localhost_only /\ ~args.code_only
    /\ args.ports # <<>> /\ args.path # "missing"

RequestWords ==
    {"Python", "pip", "react", "swift", "security", "sql", "infrastructure",
     "readme", "version", "bug", "design", "slow", "hello"}

\* str.lower() of a word
lower(word) ==
    IF word = "Python" THEN "python" ELSE IF word = "ALL" THEN "all" ELSE word

\* <<w, k>>: the keyword k is a substring of the lowered word w
Substrings ==
    {<<"python", "py">>, <<"python", "python">>, <<"pip", "pip">>,
     <<"react", "react">>, <<"swift", "swift">>, <<"security", "security">>,
     <<"sql", "sql">>, <<"infrastructure", "infrastructure">>,
     <<"infrastructure", "structure">>, <<"readme", "readme">>,
     <<"version", "version">>, <<"bug", "bug">>, <<"design", "design">>,
     <<"slow", "slow">>}

\* word in request_lower
in_request(word, request_lower) ==
    \E w \in request_lower : <<w, word>> \in Substrings

\* any(word in request_lower for word in words)
any_word(request_lower, words) ==
    \E word \in words : in_request(word, request_lower)

\* if key not in selected_agents: selected_agents.append(key)
append_unless_selected(selected_agents, key) ==
    IF \E i \in DOMAIN selected_agents : selected_agents[i] = key
    THEN selected_agents
    ELSE Append(selected_agents, key)

\* the keyword lists of the rules of run_natural_language_analysis, in the
\* order of the rules
rule_words ==
    <<{"python", "py", "pip", "django", "flask", "fastapi"},
      {"react", "jsx", "tsx", "frontend", "component", "hook"},
      {"swift", "ios", "macos", "swiftui", "xcode", "app store"},
      {"security", "vulnerabilit", "hack", "attack", "owasp", "injection", "hole"},
      {"sql", "database", "query", "mysql", "postgres", "sqlite"},
      {"docker", "deploy", "devops", "ci/cd", "infrastructure"},
      {"document", "readme", "docs", "comment"},
      {"depend", "package", "npm", "pip", "version"},
      {"bug", "error", "issue", "problem", "quality", "test"},
      {"architecture", "design", "pattern", "structure", "complexity"},
      {"performance", "speed", "optimization", "slow"}>>

\* the agent a rule appends when its keyword list hits; the bug/quality rule
\* (9) and the performance rule (11) choose theirs from the request
rule_agent ==
    <<"python_expert", "react_expert", "swift_expert", "security_expert",
      "database_expert", "devops_expert", "documentation_expert", "deps_expert",
      "by request", "cs_professor", "by request">>

\* the body of the k-th rule, whose keyword list hit
rule_body(k, selected_agents, request_lower, project_type) ==
    IF k = 9
    THEN IF in_request("python", request_lower) \/ project_type = "python"
         THEN append_unless_selected(selected_agents, "python_expert")
         ELSE Append(selected_agents, "qa_tester")
    ELSE IF k = 11
         THEN IF in_request("python", request_lower)
              THEN append_unless_selected(selected_agents, "python_expert")
              ELSE IF in_request("react", request_lower)
                   THEN append_unless_selected(selected_agents, "react_expert")
                   ELSE selected_agents
         ELSE Append(selected_agents, rule_agent[k])

\* selected_agents after the first k keyword rules
RECURSIVE rules_applied(_, _, _)
rules_applied(k, request_lower, project_type) ==
    IF k = 0 THEN <<>>
    ELSE IF any_word(request_lower, rule_words[k])
         THEN rule_body(k, rules_applied(k - 1, request_lower, project_type),
                        request_lower, project_type)
         ELSE rules_applied(k - 1, request_lower, project_type)

\* the keyword rules of run_natural_language_analysis, in their order: every
\* rule whose keyword list hits appends its agent
keyword_rules(request_lower, project_type) ==
    rules_applied(Len(rule_words), request_lower, project_type)

\* the rules without the general-analysis default
no_default_agents(selected_agents) == selected_agents

\* if not selected_agents: the general analysis agents
default_agents(selected_agents) ==
    IF selected_agents = <<>>
    THEN <<"cs_professor", "qa_tester", "security_expert">>
    ELSE selected_agents

\* list(dict.fromkeys(keys)): the first occurrence of every key, in order
RECURSIVE dict_fromkeys(_)
dict_fromkeys(keys) ==
    IF keys = <<>> THEN <<>>
    ELSE append_unless_selected(dict_fromkeys(SubSeq(keys, 1, Len(keys) - 1)),
                                keys[Len(keys)])

\* QACrew.run_single_agent_analysis: 'Agent not found' ends the call before
\* the crew is started
run_single_agent_analysis(agent_key) ==
    [fn |-> "run_single_agent_analysis", keys |-> <<agent_key>>,
     started |-> agent_key \in AgentKeys]

\* QACrew.run_selected_agents_analysis: one unknown key ends the call
\* before the crew is started
run_selected_agents_analysis(selected_agent_keys) ==
    [fn |-> "run_selected_agents_analysis", keys |-> selected_agent_keys,
     started |-> \A i \in DOMAIN selected_agent_keys :
                     selected_agent_keys[i] \in AgentKeys]

\* QACrew.run_natural_language_analysis: the analysis that is called, and
\* whether the general-analysis default was taken
run_natural_language_analysis(user_request, project_type) ==
    LET request_lower == {lower(w) : w \in user_request}
        by_rules == keyword_rules(request_lower, project_type)
        selected_agents == dict_fromkeys(default_agents(by_rules))
        result == IF Len(selected_agents) = 1
                  THEN run_single_agent_analysis(selected_agents[1])
                  ELSE run_selected_agents_analysis(selected_agents)
    IN  [fn |-> result.fn, keys |-> result.keys, started |-> result.started,
         defaulted |-> by_rules = <<>>]

\* the requests of at most MaxWords words
Requests == {r \in SUBSET RequestWords : Cardinality(r) <= MaxWords}

InitRequest ==
    /\ argv \in [given : {TRUE}, user_request : Requests,
                 project_type : {"python", "mixed"}]
    /\ ran = [fn |-> "none"]
    /\ ScoreIdle
    /\ ComplexityIdle
    /\ AnalyzersIdle
    /\ SyntaxIdle
    /\ DependencyIdle
    /\ ProjectIdle
    /\ SecurityIdle
    /\ PathsIdle
    /\ MetricsIdle
    /\ CliIdle

\* one call of run_natural_language_analysis
NaturalLanguage ==
    /\ ran.fn = "none"
    /\ ran' = run_natural_language_analysis(argv.user_request, argv.project_type)
    /\ UNCHANGED <<argv, scoreVars, complexityVars, analyzerVars, syntaxVars,
                   dependencyVars, projectVars, securityVars, pathVars,
                   metricsVars, cliVars>>

NextRequest == NaturalLanguage

SpecRequest == InitRequest /\ [][NextRequest]_vars

\* ------------------------------------------------------------------------
\* Properties of run_natural_language_analysis
\* ------------------------------------------------------------------------

\* C27: for every request and project type the agent list that
\* run_natural_language_analysis selects is non-empty, without duplicates and
\* made of keys of self.agents other than manager; a list of one key goes to
\* run_single_agent_analysis and any other to run_selected_agents_analysis,
\* 'Agent not found' is never reached, and the list is the default trio
\* cs_professor, qa_tester, security_expert exactly when no keyword rule
\* selected an agent.
C27_SelectionWellFormed ==
    ran.fn # "none" =>
        /\ Len(ran.keys) >= 1
        /\ \A i, j \in DOMAIN ran.keys : ran.keys[i] = ran.keys[j] => i = j
        /\ \A i \in DOMAIN ran.keys : ran.keys[i] \in AgentKeys \ {"manager"}
        /\ ran.fn = (IF Len(ran.keys) = 1 THEN "run_single_agent_analysis"
                     ELSE "run_selected_agents_analysis")
        /\ ran.started
        /\ ran.defaulted <=>
               keyword_rules({lower(w) : w \in argv.user_request},
                             argv.project_type) = <<>>
        /\ ran.defaulted <=>
               ran.keys = <<"cs_professor", "qa_tester", "security_expert">>

\* C27 witness: a request whose performance rule hits without naming python
\* or react selects nobody, and the default trio ran.
C27_DefaultAfterUnspecificRule ==
    /\ argv.given /\ argv.user_request = {"slow", "hello"}
    /\ ran.fn = "run_selected_agents_analysis"
    /\ ran.keys = <<"cs_professor", "qa_tester", "security_expert">>
    /\ ran.defaulted

\* ------------------------------------------------------------------------
\* SpecMain: main of qa_crew.py
\* ------------------------------------------------------------------------

\* the comma-separated items of --agents and of the typed selection; a
\* selection is the sequence of its items, selection.split(',')
AgentItems == {"1", "2", " 10", "11", "12", " 12", "0", "x", "all", "ALL", ""}

\* str.strip() of an item
strip_item(item) ==
    IF item = " 10" THEN "10" ELSE IF item = " 12" THEN "12" ELSE item

\* int(item): surrounding whitespace is accepted, anything that is not a
\* decimal number raises ValueError
py_int(item) ==
    CASE strip_item(item) = "0" -> [exc |-> "none", value |-> 0]
      [] strip_item(item) = "1" -> [exc |-> "none", value |-> 1]
      [] strip_item(item) = "2" -> [exc |-> "none", value |-> 2]
      [] strip_item(item) = "10" -> [exc |-> "none", value |-> 10]
      [] strip_item(item) = "11" -> [exc |-> "none", value |-> 11]
      [] strip_item(item) = "12" -> [exc |-> "none", value |-> 12]
      [] OTHER -> [exc |-> "ValueError", value |-> 0]

\* QACrew.list_available_agents: the keys of agent_info, in their order
list_available_agents ==
    <<"cs_professor", "python_expert", "react_expert", "swift_expert",
      "database_expert", "devops_expert", "documentation_expert", "tech_expert",
      "deps_expert", "security_expert", "qa_tester">>

\* QACrew.run_analysis: the crew of all of self.agents
run_analysis ==
    [fn |-> "run_analysis", keys |-> <<"manager">> \o list_available_agents,
     started |-> TRUE]

\* main returns without a result, having printed why
returned(printed) ==
    [fn |-> "return", keys |-> <<>>, started |-> FALSE, printed |-> printed]

\* a selection loop that leaves an invalid number out and goes on
select_agents_skipping_invalid(selection, available_agents) ==
    LET valid == SelectSeq(selection,
                     LAMBDA item : /\ py_int(item).exc = "none"
                                   /\ py_int(item).value \in 1..Len(available_agents))
    IN  [fn |-> "run_selected_agents_analysis",
         keys |-> [i \in DOMAIN valid |-> available_agents[py_int(valid[i]).value]],
         started |-> TRUE]

\* the try block of main: the numbers of a selection that is not 'all' are
\* parsed, every one is checked against 1..len(available_agents), and only
\* then is the analysis called
select_agents(selection, available_agents) ==
    IF Len(selection) > 1
    THEN LET agent_numbers ==
                 [i \in DOMAIN selection |-> py_int(strip_item(selection[i]))]
         IN  IF \E i \in DOMAIN selection : agent_numbers[i].exc = "ValueError"
             THEN returned("Invalid format")
             ELSE IF \E i \in DOMAIN selection :
                         ~(1 <= agent_numbers[i].value
                           /\ agent_numbers[i].value <= Len(available_agents))
                  THEN returned("Invalid agent number")
                  ELSE run_selected_agents_analysis(
                           [i \in DOMAIN selection |->
                               available_agents[agent_numbers[i].value]])
    ELSE LET agent_num == py_int(selection[1])
         IN  IF agent_num.exc = "ValueError"
             THEN returned("Invalid format")
             ELSE IF 1 <= agent_num.value /\ agent_num.value <= Len(available_agents)
                  THEN run_single_agent_analysis(available_agents[agent_num.value])
                  ELSE returned("Invalid agent number")

\* bool(value) of an option or of typed text: None (<<>>) and '' are false
truthy(selection) == selection # <<>> /\ selection # <<"">>

\* input().strip() of a typed selection, whose items carry no trailing
\* whitespace
strip_selection(selection) == [selection EXCEPT ![1] = strip_item(selection[1])]

\* the values of --agents and of a typed selection
Selections == UNION {[1..n -> AgentItems] : n \in 1..MaxSelected}

\* the values of --request and of a typed request: none, or a set of words
MainRequests == {{}, {"security", "bug"}}

InitMain ==
    /\ argv \in [given : {TRUE}, request : MainRequests,
                 agents : {<<>>} \cup Selections, type : {"python", "mixed"}]
    /\ ran = [fn |-> "none"]
    /\ ScoreIdle
    /\ ComplexityIdle
    /\ AnalyzersIdle
    /\ SyntaxIdle
    /\ DependencyIdle
    /\ ProjectIdle
    /\ SecurityIdle
    /\ PathsIdle
    /\ MetricsIdle
    /\ CliIdle

\* main with --request: the natural language analysis, whatever --agents is
MainRequest ==
    /\ ran.fn = "none"
    /\ argv.request # {}
    /\ ran' = [fn |-> "main", branch |-> "request", selection |-> <<>>,
               result |-> run_natural_language_analysis(argv.request, argv.type)]
    /\ UNCHANGED <<argv, scoreVars, complexityVars, analyzerVars, syntaxVars,
                   dependencyVars, projectVars, securityVars, pathVars,
                   metricsVars, cliVars>>

\* main with --agents and no --request
MainAgents ==
    /\ ran.fn = "none"
    /\ argv.request = {}
    /\ truthy(argv.agents)
    /\ ran' = [fn |-> "main", branch |-> "agents", selection |-> argv.agents,
               result |-> IF Len(argv.agents) = 1 /\ lower(argv.agents[1]) = "all"
                          THEN run_analysis
                          ELSE select_agents(argv.agents, list_available_agents)]
    /\ UNCHANGED <<argv, scoreVars, complexityVars, analyzerVars, syntaxVars,
                   dependencyVars, projectVars, securityVars, pathVars,
                   metricsVars, cliVars>>

\* main with neither: the interactive mode, with the typed choice, and the
\* typed selection (choice 1) or request (choice 2)
MainInteractive(choice, typed, user_request) ==
    /\ ran.fn = "none"
    /\ argv.request = {}
    /\ ~truthy(argv.agents)
    /\ ran' =
         IF choice = "1"
         THEN LET selection == strip_selection(typed)
              IN  [fn |-> "main", branch |-> "selection", selection |-> typed,
                   result |->
                       IF Len(selection) = 1
                          /\ (lower(selection[1]) = "all" \/ selection[1] = "12")
                       THEN run_analysis
                       ELSE select_agents(selection, list_available_agents)]
         ELSE IF choice = "2" /\ user_request # {}
              THEN [fn |-> "main", branch |-> "typed request", selection |-> <<>>,
                    result |-> run_natural_language_analysis(user_request, argv.type)]
              ELSE [fn |-> "main", branch |-> "nothing", selection |-> <<>>,
                    result |-> returned("")]
    /\ UNCHANGED <<argv, scoreVars, complexityVars, analyzerVars, syntaxVars,
                   dependencyVars, projectVars, securityVars, pathVars,
                   metricsVars, cliVars>>

NextMain ==
    \/ MainRequest
    \/ MainAgents
    \/ \E choice \in {"1", "2", "3"}, typed \in Selections,
          user_request \in MainRequests :
           MainInteractive(choice, typed, user_request)

SpecMain == InitMain /\ [][NextMain]_vars

\* ------------------------------------------------------------------------
\* Properties of main of qa_crew.py
\* ------------------------------------------------------------------------

\* main took a selection of agent numbers, from --agents or typed
BySelection == ran.fn = "main" /\ ran.branch \in {"agents", "selection"}

\* the selection is the word all, in any case
IsAll(selection) == Len(selection) = 1 /\ lower(strip_item(selection[1])) = "all"

\* some item of the selection is not a number or is outside 1..11
HasInvalidItem(selection) ==
    \E i \in DOMAIN selection :
        \/ py_int(selection[i]).exc # "none"
        \/ py_int(selection[i]).value \notin 1..11

\* the n-th key of list_available_agents for every listed number n
ListedAgents(selection) ==
    [i \in DOMAIN selection |-> list_available_agents[py_int(selection[i]).value]]

\* C26 as stated: a selection that is not 'all' and lists an item that is
\* not a number or is outside 1..11 starts no analysis; any other selection
\* that is not 'all' runs exactly the listed agents, in the listed order.
C26_AllOrNothing ==
    (BySelection /\ ~IsAll(ran.selection)) =>
        IF HasInvalidItem(ran.selection)
        THEN ~ran.result.started
        ELSE ran.result.started /\ ran.result.keys = ListedAgents(ran.selection)

\* the typed selection 12, which the interactive mode takes for all agents
TypedTwelve ==
    /\ ran.branch = "selection"
    /\ Len(ran.selection) = 1
    /\ strip_item(ran.selection[1]) = "12"

\* C26: a selection that is not 'all', and is not the typed selection 12,
\* starts no analysis when it lists an item that is not a number or is
\* outside 1..11, and otherwise runs exactly the listed agents in the listed
\* order; the typed selection 12 runs the analysis of all agents.
C26_AllOrNothingButTypedTwelve ==
    (BySelection /\ ~IsAll(ran.selection)) =>
        IF TypedTwelve
        THEN ran.result.fn = "run_analysis" /\ ran.result.started
        ELSE IF HasInvalidItem(ran.selection)
             THEN ~ran.result.started
             ELSE /\ ran.result.started
                  /\ ran.result.keys = ListedAgents(ran.selection)

\* C26 witness: the selection 2, 10 ran python_expert and security_expert, in
\* that order.
C26_ListedAgentsRan ==
    /\ BySelection
    /\ ran.selection = <<"2", " 10">>
    /\ ran.result.fn = "run_selected_agents_analysis"
    /\ ran.result.keys = <<"python_expert", "security_expert">>

====
